---- MODULE Spec2Model ----
(***************************************************************************)
(* Pixelate Editor: the image transform pipeline (ImageProcessor), the     *)
(* application handlers around it (PixelateApp) and the PNG metadata codec *)
(* (MetadataHandler), as state machines.                                   *)
(*                                                                         *)
(*   Spec     one PixelateApp with a settled file load: Process clicks run  *)
(*            ImageProcessor.processImage stage by stage, Reload redraws.   *)
(*   SpecApp  the application from construction on: file loads, saves and   *)
(*            Process clicks interleave at the awaits of the handlers.      *)
(*   SpecPng  calls of preserveMetadata, buildPNG and parsePNGChunks on     *)
(*            byte streams and chunk lists.                                 *)
(*   SpecCrc  successive calls of calculateCRC32 on one MetadataHandler.    *)
(*   SpecCalls  single calls of the pixel transforms of ImageProcessor and  *)
(*            of the chunk builders of MetadataHandler.                     *)
(***************************************************************************)
EXTENDS Integers, Sequences, FiniteSets, TLC

VARIABLES
  currentImage,     \* PixelateApp.currentImage: a file id, or NoImage
  currentMetadata,  \* PixelateApp.currentMetadata: a metadata record, or NoMetadata
  originalFileName, \* PixelateApp.originalFileName: a file id, or NoImage
  canvas,           \* what CanvasManager's canvas shows
  loading,          \* UIController's loading overlay is displayed
  buttonsEnabled,   \* reloadBtn / saveBtn / metadataBtn are enabled
  loads,            \* the handleFileLoad invocations in flight, by slot
  save,             \* the saveImage invocation in flight
  run,              \* the ImageProcessor.processImage invocation in progress
  png,              \* the preserveMetadata or buildPNG call under way
  crcTable,         \* MetadataHandler.crcTable: the cached table, or NoCrcTable
  crcCall,          \* the last call of calculateCRC32
  lastCall          \* the last call of one of the synchronous functions of
                    \* ImageProcessor and MetadataHandler, with the buffers it left

appVars == <<currentImage, currentMetadata, originalFileName, canvas, loading, buttonsEnabled>>
ioVars == <<loads, save>>
codecVars == <<png, crcTable, crcCall, lastCall>>
vars == <<currentImage, currentMetadata, originalFileName, canvas, loading,
          buttonsEnabled, loads, save, run,
          png, crcTable, crcCall, lastCall>>

(***************************************************************************)
(* Bounds and inputs                                                       *)
(***************************************************************************)
NumFiles == 2
MaxScale == 3
MaxLoads == 2

Files == 1..NumFiles
NoImage == 0

(***************************************************************************)
(* The metadata codec at rest: no call under way and no CRC table built.   *)
(***************************************************************************)
NoCrcTable == <<>>
NoCrcCall == [pc |-> "none", data |-> <<>>, value |-> <<0, 0>>, built |-> FALSE]

\* a Blob: an object identity and its bytes
NoBlob == [id |-> 0, bytes |-> <<>>]

NoParsedParameters ==
  [positivePrompt |-> <<>>, negativePrompt |-> <<>>, steps |-> <<>>,
   sampler |-> <<>>, scheduleType |-> <<>>, cfgScale |-> <<>>, seed |-> <<>>,
   size |-> <<>>, model |-> <<>>, modelHash |-> <<>>, vae |-> <<>>,
   vaeHash |-> <<>>, version |-> <<>>]

\* metadata = null
NullMetadata ==
  [null |-> TRUE, name |-> <<>>, hasParsedParameters |-> FALSE,
   parsedParameters |-> NoParsedParameters, hasExif |-> FALSE, exif |-> <<>>]

IdlePng ==
  [pc |-> "idle", call |-> "", blob |-> NoBlob, metadata |-> NullMetadata,
   result |-> NoBlob, built |-> FALSE, raised |-> "", parsed |-> <<>>,
   chunks |-> <<>>, written |-> <<>>, readback |-> <<>>]

\* no function called yet: heap holds the ImageData objects that exist
IdleCall == [op |-> "none", in |-> [none |-> TRUE], out |-> [none |-> TRUE], heap |-> <<>>]

CodecAtRest ==
  png = IdlePng /\ crcTable = NoCrcTable /\ crcCall = NoCrcCall /\ lastCall = IdleCall

\* naturalWidth / naturalHeight of the decoded image of file f: one image
\* smaller than every scale step and the SNES window, the others larger.
FileW(f) == IF f = 1 THEN 3 ELSE 300 * f
FileH(f) == IF f = 1 THEN 2 ELSE 250 * f

\* UIController.getProcessingParameters: the record read from the controls.
ColorChoices == {4, 16, 256}
ParamSet ==
  [scale : 1..MaxScale, colors : ColorChoices, quantize : BOOLEAN,
   rgb555 : BOOLEAN, snescrop : BOOLEAN, rescale : BOOLEAN]

(***************************************************************************)
(* ImageData values.  The pixel content is kept symbolically: px is the    *)
(* source file followed by the transforms applied to it, in order.         *)
(***************************************************************************)
Min(a, b) == IF a <= b THEN a ELSE b
Max(a, b) == IF a >= b THEN a ELSE b

\* new ImageData(data, w, h) raises on a zero dimension (empty data).
ImageDataThrows(w, h) == w = 0 \/ h = 0

MkImageData(len, w, h, px) == [len |-> len, width |-> w, height |-> h, px |-> px]

\* (mutant: the pixels are read from the canvas on display)
getDisplayedData(f) ==
  MkImageData(canvas.width * canvas.height * 4, canvas.width, canvas.height, canvas.px)

\* ctx.getImageData(0, 0, canvas.width, canvas.height) of the drawn image.
getImageData(f) == MkImageData(FileW(f) * FileH(f) * 4, FileW(f), FileH(f), <<f>>)

\* (mutant: the destination array keeps the length of the source array)
resizeSameLength(imageData, srcWidth, srcHeight, destWidth, destHeight) ==
  MkImageData(imageData.len, destWidth, destHeight,
              Append(imageData.px, <<"resize", srcWidth, srcHeight, destWidth, destHeight>>))

resizeImageData(imageData, srcWidth, srcHeight, destWidth, destHeight) ==
  MkImageData(destWidth * destHeight * 4, destWidth, destHeight,
              Append(imageData.px, <<"resize", srcWidth, srcHeight, destWidth, destHeight>>))

calculatePosterizeLevels(targetColors) ==
  IF targetColors <= 4 THEN 2
  ELSE IF targetColors <= 8 THEN 3
  ELSE IF targetColors <= 16 THEN 4
  ELSE IF targetColors <= 32 THEN 5
  ELSE IF targetColors <= 64 THEN 6
  ELSE IF targetColors <= 128 THEN 7
  ELSE 8

quantizeColors(imageData, colorCount) ==
  MkImageData(imageData.len, imageData.width, imageData.height,
              Append(imageData.px, <<"quantize", colorCount>>))

posterizeColors(imageData, colorCount) ==
  MkImageData(imageData.len, imageData.width, imageData.height,
              Append(imageData.px, <<"posterize", calculatePosterizeLevels(colorCount)>>))

applyRGB555(imageData) ==
  MkImageData(imageData.len, imageData.width, imageData.height,
              Append(imageData.px, <<"rgb555">>))

targetWidth == 256
targetHeight == 224

snesCrop(imageData, width, height) ==
  LET left == Max(0, (width - targetWidth) \div 2)
      top == Max(0, (height - targetHeight) \div 2)
      cropWidth == Min(targetWidth, width - left)
      cropHeight == Min(targetHeight, height - top)
  IN  [imageData |-> MkImageData(cropWidth * cropHeight * 4, cropWidth, cropHeight,
                                 Append(imageData.px, <<"crop", left, top, cropWidth, cropHeight>>)),
       width |-> cropWidth,
       height |-> cropHeight]

(***************************************************************************)
(* ImageProcessor.processImage, one step per stage.  A run is the record   *)
(*   pc       where the invocation stands                                  *)
(*   image    the source image (a file id), params the parameter record    *)
(*   data     currentImageData; w, h  currentWidth, currentHeight          *)
(*   sink     the messages handed to progressCallback, oldest first        *)
(*   ran      the stages that were applied, in the order they ran          *)
(*   error    the message of the error processImage rejected with          *)
(* A stage raises when the ImageData it builds has a zero dimension, or    *)
(* when its buffer cannot be allocated (oom, chosen by the environment).   *)
(***************************************************************************)
NoData == MkImageData(0, 0, 0, <<>>)
NoParams == [scale |-> 1, colors |-> 256, quantize |-> FALSE,
             rgb555 |-> FALSE, snescrop |-> FALSE, rescale |-> FALSE]
IdleRun == [pc |-> "idle", image |-> NoImage, params |-> NoParams, data |-> NoData,
            w |-> 0, h |-> 0, sink |-> <<>>, ran |-> <<>>, cause |-> "", error |-> <<>>]

Raise(r, why) == [r EXCEPT !.pc = "threw", !.cause = why]
Emit(r, m) == [r EXCEPT !.sink = Append(@, m)]

\* lines 26-43: the call, the working canvas, the first two messages
Begin(image, p) ==
  LET d == getImageData(image)
  IN  [IdleRun EXCEPT !.pc = "downscale", !.image = image, !.params = p,
         !.data = d, !.w = d.width, !.h = d.height,
         !.sink = << <<"Starting image processing...">>,
                     <<"Loaded image", d.width, d.height>> >>]

\* Step 1 (lines 45-55)
DownscaleCond(p) == p.scale > 1

Downscale(r, oom) ==
  IF r.pc # "downscale" THEN r
  ELSE IF ~DownscaleCond(r.params) THEN [r EXCEPT !.pc = "colors"]
  ELSE LET newWidth == r.w \div r.params.scale
           newHeight == r.h \div r.params.scale
       IN  IF oom THEN Raise(r, "Array buffer allocation failed")
           ELSE IF ImageDataThrows(newWidth, newHeight)
             THEN Raise(r, "The source width or height is zero")
           ELSE Emit([r EXCEPT !.pc = "colors",
                        !.data = resizeImageData(r.data, r.w, r.h, newWidth, newHeight),
                        !.w = newWidth, !.h = newHeight,
                        !.ran = Append(@, "downscale")],
                     <<"Downscaled", r.params.scale, newWidth, newHeight>>)

\* Step 2 (lines 57-66)
ColorsCond(p) == p.colors < 256

Colors(r, oom) ==
  IF r.pc # "colors" THEN r
  ELSE IF ~ColorsCond(r.params) THEN [r EXCEPT !.pc = "rgb555"]
  ELSE IF oom THEN Raise(r, "Array buffer allocation failed")
  ELSE IF r.params.quantize
    THEN Emit([r EXCEPT !.pc = "rgb555",
                 !.data = quantizeColors(r.data, r.params.colors),
                 !.ran = Append(@, "quantize")],
              <<"Quantized", r.params.colors>>)
    ELSE Emit([r EXCEPT !.pc = "rgb555",
                 !.data = posterizeColors(r.data, r.params.colors),
                 !.ran = Append(@, "posterize")],
              <<"Applied color reduction", r.params.colors>>)

\* Step 3 (lines 68-72)
Rgb555Cond(p) == p.rgb555

Rgb555(r, oom) ==
  IF r.pc # "rgb555" THEN r
  ELSE IF ~Rgb555Cond(r.params) THEN [r EXCEPT !.pc = "snescrop"]
  ELSE IF oom THEN Raise(r, "Array buffer allocation failed")
  ELSE Emit([r EXCEPT !.pc = "snescrop", !.data = applyRGB555(r.data),
               !.ran = Append(@, "rgb555")],
            <<"Applied RGB555 color conversion">>)

\* Step 4 (lines 74-81)
SnesCropCond(p) == p.snescrop

SnesCrop(r, oom) ==
  IF r.pc # "snescrop" THEN r
  ELSE IF ~SnesCropCond(r.params) THEN [r EXCEPT !.pc = "rescale"]
  ELSE IF oom THEN Raise(r, "Array buffer allocation failed")
  ELSE LET croppedData == snesCrop(r.data, r.w, r.h)
       IN  Emit([r EXCEPT !.pc = "rescale", !.data = croppedData.imageData,
                    !.w = croppedData.width, !.h = croppedData.height,
                    !.ran = Append(@, "snescrop")],
                <<"Cropped to SNES size", croppedData.width, croppedData.height>>)

\* Step 5 (lines 83-90)
\* (mutant: the scale test of line 84 dropped)
RescaleCondNoScale(p) == p.rescale

RescaleCond(p) == p.rescale /\ p.scale > 1

\* (mutant: step 5 multiplies the size of the source image)
RescaleOriginal(r, oom) ==
  IF r.pc # "rescale" THEN r
  ELSE IF ~RescaleCond(r.params) THEN [r EXCEPT !.pc = "complete"]
  ELSE IF oom THEN Raise(r, "Array buffer allocation failed")
  ELSE LET finalWidth == FileW(r.image) * r.params.scale
           finalHeight == FileH(r.image) * r.params.scale
       IN  Emit([r EXCEPT !.pc = "complete",
                    !.data = resizeImageData(r.data, r.w, r.h, finalWidth, finalHeight),
                    !.ran = Append(@, "rescale")],
                <<"Rescaled", finalWidth, finalHeight>>)

Rescale(r, oom) ==
  IF r.pc # "rescale" THEN r
  ELSE IF ~RescaleCond(r.params) THEN [r EXCEPT !.pc = "complete"]
  ELSE IF oom THEN Raise(r, "Array buffer allocation failed")
  ELSE LET finalWidth == r.w * r.params.scale
           finalHeight == r.h * r.params.scale
       IN  Emit([r EXCEPT !.pc = "complete",
                    !.data = resizeImageData(r.data, r.w, r.h, finalWidth, finalHeight),
                    !.ran = Append(@, "rescale")],
                <<"Rescaled", finalWidth, finalHeight>>)

\* lines 92-93: the last message and the return
Complete(r) ==
  IF r.pc # "complete" THEN r
  ELSE Emit([r EXCEPT !.pc = "returned"], <<"Processing complete!">>)

\* (mutant: the catch block returns the current image data instead of rethrowing)
CatchSwallow(r) ==
  IF r.pc # "threw" THEN r
  ELSE [r EXCEPT !.pc = "returned"]

\* lines 95-98: the catch block wraps and rethrows
Catch(r) ==
  IF r.pc # "threw" THEN r
  ELSE [r EXCEPT !.pc = "rejected", !.error = <<"Image processing failed: ", r.cause>>]

(***************************************************************************)
(* CanvasManager: the canvas shows nothing, an image, or an ImageData.     *)
(***************************************************************************)
Blank == [kind |-> "blank", width |-> 500, height |-> 500, px |-> <<>>]
displayImage(f) == [kind |-> "image", width |-> FileW(f), height |-> FileH(f), px |-> <<f>>]
displayImageData(d) == [kind |-> "data", width |-> d.width, height |-> d.height, px |-> d.px]

(***************************************************************************)
(* PixelateApp.processImage.  It is one task: ImageProcessor.processImage  *)
(* has no await, and the continuation after the caller's await is a        *)
(* microtask, so no other handler runs between its steps.                  *)
(***************************************************************************)
PipelineIdle == run.pc = "idle"

\* PixelateApp.processImage up to the call of the pipeline (lines 379-397)
ProcessClickFrom(PS) ==
  /\ PipelineIdle
  /\ \E p \in PS :
       IF currentImage = NoImage
         THEN UNCHANGED <<run, loading>>
         ELSE /\ run' = Begin(currentImage, p)
              /\ loading' = TRUE
  /\ UNCHANGED <<currentImage, currentMetadata, originalFileName, canvas, buttonsEnabled>>
  /\ UNCHANGED ioVars
  /\ UNCHANGED codecVars

ProcessClick == ProcessClickFrom(ParamSet)

StageDownscale ==
  /\ run.pc = "downscale"
  /\ \E oom \in BOOLEAN : run' = Downscale(run, oom)
  /\ UNCHANGED <<appVars, ioVars>>
  /\ UNCHANGED codecVars

StageColors ==
  /\ run.pc = "colors"
  /\ \E oom \in BOOLEAN : run' = Colors(run, oom)
  /\ UNCHANGED <<appVars, ioVars>>
  /\ UNCHANGED codecVars

StageRgb555 ==
  /\ run.pc = "rgb555"
  /\ \E oom \in BOOLEAN : run' = Rgb555(run, oom)
  /\ UNCHANGED <<appVars, ioVars>>
  /\ UNCHANGED codecVars

StageSnesCrop ==
  /\ run.pc = "snescrop"
  /\ \E oom \in BOOLEAN : run' = SnesCrop(run, oom)
  /\ UNCHANGED <<appVars, ioVars>>
  /\ UNCHANGED codecVars

StageRescale ==
  /\ run.pc = "rescale"
  /\ \E oom \in BOOLEAN : run' = Rescale(run, oom)
  /\ UNCHANGED <<appVars, ioVars>>
  /\ UNCHANGED codecVars

StageComplete ==
  /\ run.pc = "complete"
  /\ run' = Complete(run)
  /\ UNCHANGED <<appVars, ioVars>>
  /\ UNCHANGED codecVars

StageCatch ==
  /\ run.pc = "threw"
  /\ run' = Catch(run)
  /\ UNCHANGED <<appVars, ioVars>>
  /\ UNCHANGED codecVars

\* PixelateApp.processImage after the await (lines 399-403)
ProcessDisplay ==
  /\ run.pc = "returned"
  /\ canvas' = displayImageData(run.data)
  /\ loading' = FALSE
  /\ run' = IdleRun
  /\ UNCHANGED <<currentImage, currentMetadata, originalFileName, buttonsEnabled>>
  /\ UNCHANGED ioVars
  /\ UNCHANGED codecVars

\* PixelateApp.processImage's catch block (lines 404-410)
ProcessError ==
  /\ run.pc = "rejected"
  /\ loading' = FALSE
  /\ run' = IdleRun
  /\ UNCHANGED <<currentImage, currentMetadata, originalFileName, canvas, buttonsEnabled>>
  /\ UNCHANGED ioVars
  /\ UNCHANGED codecVars

\* PixelateApp.reloadOriginalImage (lines 450-455)
Reload ==
  /\ PipelineIdle
  /\ buttonsEnabled
  /\ currentImage # NoImage
  /\ canvas' = displayImage(currentImage)
  /\ UNCHANGED <<currentImage, currentMetadata, originalFileName, loading, buttonsEnabled, run>>
  /\ UNCHANGED ioVars
  /\ UNCHANGED codecVars

(***************************************************************************)
(* PixelateApp.handleFileLoad and saveImage: each await is a point where   *)
(* other handlers run.  loads is the bag of handleFileLoad invocations in  *)
(* flight: loads[<<f, "meta">>] of them await extractMetadata of file f,   *)
(* loads[<<f, "decode">>] await loadImageFromFile.                         *)
(***************************************************************************)
NoMetadata == [name |-> NoImage]
\* MetadataHandler.getFileFormat: the extension of the file's name
getFileFormat(f) == IF f = 1 THEN "png" ELSE "jpg"

\* the properties of File f that extractMetadata copies
FileProperties(f) ==
  [format |-> getFileFormat(f), size |-> <<"size", f>>,
   lastModified |-> <<"lastModified", f>>, name |-> f,
   type |-> IF f = 1 THEN "image/png" ELSE "image/jpeg"]

\* what can go wrong in extractMetadata's try block: file.arrayBuffer()
\* rejects, or ExifReader.load throws
ExtractFaults == {"none", "read", "decode"}

\* (mutant: the catch block rethrows)
ExtractRethrow(f, message) == [rejected |-> TRUE, value |-> NoMetadata, error |-> message]

\* extractMetadata's catch block: the fallback record with error.message
ExtractCatch(f, message) ==
  [rejected |-> FALSE, value |-> [error |-> message] @@ FileProperties(f), error |-> ""]

\* MetadataHandler.extractMetadata: how the promise it returns settles
extractMetadata(f, fault) ==
  IF fault = "read" THEN ExtractCatch(f, "Read error")
  ELSE IF fault = "decode" THEN ExtractCatch(f, "Invalid image format")
  ELSE [rejected |-> FALSE,
        value |-> [tags |-> <<"tags", f>>, exif |-> <<"exif", f>>,
                   png |-> <<"png", f>>, ai |-> <<"ai", f>>] @@ FileProperties(f),
        error |-> ""]

\* extractMetadata's two results: the full record, or the fallback record
\* with an error message.
Metadata(f, ok) == extractMetadata(f, IF ok THEN "none" ELSE "read").value

LoadPoints == Files \X {"meta", "decode"}
NoLoads == [k \in LoadPoints |-> 0]
FreeSave == [pc |-> "free", snap |-> Blank, metadata |-> NoMetadata]

RECURSIVE SumOver(_, _)
SumOver(f, S) ==
  IF S = {} THEN 0
  ELSE LET k == CHOOSE x \in S : TRUE IN f[k] + SumOver(f, S \ {k})

LoadsInFlight == SumOver(loads, DOMAIN loads)

\* handleFileSelect / handleDrop -> handleFileLoad up to its first await
FileSelected(f) ==
  /\ PipelineIdle
  /\ LoadsInFlight < MaxLoads
  /\ loads' = [loads EXCEPT ![<<f, "meta">>] = @ + 1]
  /\ loading' = TRUE
  /\ originalFileName' = f
  /\ UNCHANGED <<currentImage, currentMetadata, canvas, buttonsEnabled, save, run>>
  /\ UNCHANGED codecVars

\* extractMetadata settled: loadImageFromFile starts, or, had it rejected,
\* the catch block of handleFileLoad would run
MetadataExtracted(f) ==
  /\ PipelineIdle
  /\ loads[<<f, "meta">>] > 0
  /\ \E fault \in ExtractFaults :
       LET settled == extractMetadata(f, fault)
       IN  IF settled.rejected
           THEN /\ loads' = [loads EXCEPT ![<<f, "meta">>] = @ - 1]
                /\ loading' = FALSE
                /\ UNCHANGED currentMetadata
           ELSE /\ loads' = [loads EXCEPT ![<<f, "meta">>] = @ - 1,
                                          ![<<f, "decode">>] = @ + 1]
                /\ currentMetadata' = settled.value
                /\ UNCHANGED loading
  /\ UNCHANGED <<currentImage, originalFileName, canvas, buttonsEnabled, save, run>>
  /\ UNCHANGED codecVars

\* img.onload: the rest of the try block
ImageDecoded(f) ==
  /\ PipelineIdle
  /\ loads[<<f, "decode">>] > 0
  /\ currentImage' = f
  /\ canvas' = displayImage(f)
  /\ buttonsEnabled' = TRUE
  /\ loading' = FALSE
  /\ loads' = [loads EXCEPT ![<<f, "decode">>] = @ - 1]
  /\ UNCHANGED <<currentMetadata, originalFileName, save, run>>
  /\ UNCHANGED codecVars

\* img.onerror: the catch block
ImageDecodeFailed(f) ==
  /\ PipelineIdle
  /\ loads[<<f, "decode">>] > 0
  /\ loading' = FALSE
  /\ loads' = [loads EXCEPT ![<<f, "decode">>] = @ - 1]
  /\ UNCHANGED <<currentImage, currentMetadata, originalFileName, canvas, buttonsEnabled,
                 save, run>>
  /\ UNCHANGED codecVars

\* saveImage up to the await of getCanvasBlob: toBlob encodes the canvas as it is now
SaveClick ==
  /\ PipelineIdle
  /\ buttonsEnabled
  /\ save.pc = "free"
  /\ save' = [pc |-> "blob", snap |-> canvas, metadata |-> NoMetadata]
  /\ loading' = TRUE
  /\ UNCHANGED <<currentImage, currentMetadata, originalFileName, canvas, buttonsEnabled,
                 loads, run>>
  /\ UNCHANGED codecVars

\* the blob is there: this.currentMetadata is read and preserveMetadata is called
SaveBlobReady ==
  /\ PipelineIdle
  /\ save.pc = "blob"
  /\ save' = [save EXCEPT !.pc = "preserve", !.metadata = currentMetadata]
  /\ UNCHANGED <<appVars, loads, run>>
  /\ UNCHANGED codecVars

\* preserveMetadata settled: this.originalFileName is read, the blob is downloaded
SaveDownload ==
  /\ PipelineIdle
  /\ save.pc = "preserve"
  /\ save' = FreeSave
  /\ loading' = FALSE
  /\ UNCHANGED <<currentImage, currentMetadata, originalFileName, canvas, buttonsEnabled,
                 loads, run>>
  /\ UNCHANGED codecVars

(***************************************************************************)
(* Spec: the state after construction and at most one settled file load;   *)
(* Process with every parameter record, and Reload.                        *)
(***************************************************************************)
Init ==
  /\ currentImage \in Files \cup {NoImage}
  /\ currentMetadata = IF currentImage = NoImage THEN NoMetadata
                       ELSE Metadata(currentImage, TRUE)
  /\ originalFileName = currentImage
  /\ canvas = IF currentImage = NoImage THEN Blank ELSE displayImage(currentImage)
  /\ loading = FALSE
  /\ buttonsEnabled = (currentImage # NoImage)
  /\ loads = NoLoads
  /\ save = FreeSave
  /\ run = IdleRun
  /\ CodecAtRest

Pipeline ==
  \/ StageDownscale
  \/ StageColors
  \/ StageRgb555
  \/ StageSnesCrop
  \/ StageRescale
  \/ StageComplete
  \/ StageCatch
  \/ ProcessDisplay
  \/ ProcessError

Next ==
  \/ ProcessClick
  \/ Pipeline
  \/ Reload

Spec == Init /\ [][Next]_vars

(***************************************************************************)
(* SpecApp: the application from construction on, with file loads and      *)
(* saves in flight while the user goes on clicking.                        *)
(***************************************************************************)
AppParamSet ==
  {p \in ParamSet : \/ p = NoParams
                    \/ /\ p.scale = MaxScale /\ p.colors = 16 /\ p.quantize
                       /\ p.rgb555 /\ p.snescrop /\ p.rescale}

ProcessClickApp == ProcessClickFrom(AppParamSet)

\* The stages of the run that has begun, to its end, as one step; oomAt
\* names the stage whose allocation fails, if any.
RunToEnd(r, oomAt) ==
  Catch(Complete(Rescale(SnesCrop(Rgb555(Colors(Downscale(r,
    oomAt = "downscale"), oomAt = "colors"), oomAt = "rgb555"),
    oomAt = "snescrop"), oomAt = "rescale")))

ProcessRunApp ==
  /\ ~PipelineIdle
  /\ \E oomAt \in {"none", "colors", "rescale"} :
       LET r == RunToEnd(run, oomAt)
       IN  canvas' = IF r.pc = "returned" THEN displayImageData(r.data) ELSE canvas
  /\ loading' = FALSE
  /\ run' = IdleRun
  /\ UNCHANGED <<currentImage, currentMetadata, originalFileName, buttonsEnabled>>
  /\ UNCHANGED ioVars
  /\ UNCHANGED codecVars

InitApp ==
  /\ currentImage = NoImage
  /\ currentMetadata = NoMetadata
  /\ originalFileName = NoImage
  /\ canvas = Blank
  /\ loading = FALSE
  /\ buttonsEnabled = FALSE
  /\ loads = NoLoads
  /\ save = FreeSave
  /\ run = IdleRun
  /\ CodecAtRest

NextApp ==
  \/ \E f \in Files : FileSelected(f)
  \/ \E f \in Files : MetadataExtracted(f)
  \/ \E f \in Files : ImageDecoded(f)
  \/ \E f \in Files : ImageDecodeFailed(f)
  \/ SaveClick
  \/ SaveBlobReady
  \/ SaveDownload
  \/ ProcessClickApp
  \/ ProcessRunApp
  \/ Reload

SpecApp == InitApp /\ [][NextApp]_vars

(***************************************************************************)
(* 32-bit arithmetic as JavaScript does it.  A number n is held as the     *)
(* pair <<hi, lo>> with n = hi * 65536 + lo and lo in 0..65535, so that    *)
(* values up to 2^32 - 1 and negative values both have a representation.   *)
(* Bitwise operators take their operands modulo 2^32; ^ gives a signed     *)
(* result (hi in -32768..32767), >>> an unsigned one (hi in 0..65535).     *)
(***************************************************************************)
Word(hi, lo) == <<hi, lo>>
ToUint32(w) == Word(w[1] % 65536, w[2])
ToInt32(w) ==
  LET h == w[1] % 65536 IN Word(IF h >= 32768 THEN h - 65536 ELSE h, w[2])

RECURSIVE XorBits(_, _, _)
XorBits(a, b, n) ==
  IF n = 0 THEN 0
  ELSE (((a % 2) + (b % 2)) % 2) + (2 * XorBits(a \div 2, b \div 2, n - 1))

\* a ^ b on 4-bit operands, tabulated
XorNibble == [a \in 0..15 |-> [b \in 0..15 |-> XorBits(a, b, 4)]]

RECURSIVE XorNibbles(_, _, _)
XorNibbles(a, b, n) ==
  IF n = 0 THEN 0
  ELSE XorNibble[a % 16][b % 16] + (16 * XorNibbles(a \div 16, b \div 16, n - 1))

\* a ^ b
JsXor(a, b) ==
  LET ua == ToUint32(a)
      ub == ToUint32(b)
  IN  ToInt32(Word(XorNibbles(ua[1], ub[1], 4), XorNibbles(ua[2], ub[2], 4)))
\* a >>> n, for n in 0..16
JsUshr(a, n) ==
  LET u == ToUint32(a)
      p == 2 ^ n
  IN  Word(u[1] \div p, (u[2] \div p) + ((u[1] % p) * (2 ^ (16 - n))))
\* a & 0xFF, as a plain integer
JsAnd255(a) == a[2] % 256

(***************************************************************************)
(* MetadataHandler.calculateCRC32 (main-old.js)                            *)
(***************************************************************************)
CrcPolynomial == Word(60856, 33568)     \* 0xEDB88320
AllOnes32 == Word(65535, 65535)         \* 0xFFFFFFFF

\* c after j more rounds of the inner loop
RECURSIVE CrcTableRounds(_, _)
CrcTableRounds(c, j) ==
  IF j = 0 THEN c
  ELSE CrcTableRounds(IF JsAnd255(c) % 2 = 1 THEN JsXor(CrcPolynomial, JsUshr(c, 1))
                      ELSE JsUshr(c, 1), j - 1)

\* this.crcTable[i] = c, stored in a Uint32Array
CrcTableEntry(i) == ToUint32(CrcTableRounds(Word(0, i), 8))

\* the table, indexed from 1 (entry i of the code is entry i + 1 here)
BuildCrcTable == [i \in 1..256 |-> CrcTableEntry(i - 1)]

\* if (!this.crcTable) { ... }
CrcTableFor(table) == IF table = NoCrcTable THEN BuildCrcTable ELSE table

\* crc = this.crcTable[(crc ^ data[i]) & 0xFF] ^ (crc >>> 8)
CrcStep(table, crc, byte) ==
  JsXor(table[JsAnd255(JsXor(crc, Word(0, byte))) + 1], JsUshr(crc, 8))

\* the register after the bytes data[i..], taken in order: the first half of
\* them, then the rest starting from the register the first half left.  The
\* register is a 32-bit value at every step, and testing that makes TLC
\* compute it before it goes on.
RECURSIVE CrcLoop(_, _, _, _)
CrcLoop(table, data, i, crc) ==
  IF i > Len(data) \/ ToUint32(crc)[1] > 65535 THEN crc
  ELSE IF i = Len(data) THEN CrcStep(table, crc, data[i])
  ELSE LET mid == (i + Len(data)) \div 2
       IN  CrcLoop(table, data, mid + 1, CrcLoop(table, SubSeq(data, 1, mid), i, crc))

\* the final XOR without the unsigned shift
CrcFinishSigned(crc) == JsXor(crc, AllOnes32)

\* return (crc ^ 0xFFFFFFFF) >>> 0
CrcFinish(crc) == JsUshr(JsXor(crc, AllOnes32), 0)

\* calculateCRC32 with this.crcTable = table
CrcWith(table, data) == CrcFinish(CrcLoop(CrcTableFor(table), data, 1, AllOnes32))

\* calculateCRC32 on a handler whose table is already cached
calculateCRC32(data) == CrcWith(BuildCrcTable, data)

(***************************************************************************)
(* PNG chunk codec of MetadataHandler (main-old.js).  Byte arrays are      *)
(* sequences of 0..255, strings are sequences of UTF-16 code units, and    *)
(* index k of the code is index k + 1 here.                                *)
(***************************************************************************)
pngSignature == <<137, 80, 78, 71, 13, 10, 26, 10>>

\* a test of the first four bytes only
isPNGPrefix(data) ==
  IF Len(data) < 4 THEN FALSE
  ELSE \A i \in 1..4 : data[i] = pngSignature[i]

isPNG(data) ==
  IF Len(data) < 8 THEN FALSE
  ELSE \A i \in 1..8 : data[i] = pngSignature[i]

\* data[k] inside a bitwise expression or String.fromCharCode: a read outside
\* the array is undefined, which both turn into 0
ByteAt(data, k) == IF k >= 0 /\ k < Len(data) THEN data[k + 1] ELSE 0

\* TypedArray.prototype.slice: negative indices count from the end and both
\* ends are clamped to the array
SliceIndex(len, k) == IF k < 0 THEN Max(len + k, 0) ELSE Min(k, len)

\* a slice that takes its bytes from the beginning of the array, whatever start
sliceFromBeginning(data, start, end) ==
  SubSeq(data, 1, SliceIndex(Len(data), end))

slice(data, start, end) ==
  SubSeq(data, SliceIndex(Len(data), start) + 1, SliceIndex(Len(data), end))

\* (data[o] << 24) | (data[o + 1] << 16) | (data[o + 2] << 8) | data[o + 3]:
\* a signed 32-bit value
ReadLength(data, o) ==
  LET b0 == ByteAt(data, o)
  IN  ((IF b0 >= 128 THEN b0 - 256 ELSE b0) * 16777216)
      + (ByteAt(data, o + 1) * 65536) + (ByteAt(data, o + 2) * 256)
      + ByteAt(data, o + 3)

\* one iteration of the loop of parsePNGChunks: the chunk pushed at offset
ChunkAt(data, offset) ==
  LET length == ReadLength(data, offset)
  IN  [type   |-> <<ByteAt(data, offset + 4), ByteAt(data, offset + 5),
                    ByteAt(data, offset + 6), ByteAt(data, offset + 7)>>,
       data   |-> slice(data, offset + 8, offset + 8 + length),
       crc    |-> slice(data, offset + 8 + length, offset + 12 + length),
       length |-> length]

\* offset += 12 + length
NextOffset(offset, length) == offset + 12 + length

\* The while loop.  The loop body depends on offset alone, so an offset seen
\* before means the loop never ends (returns = FALSE).
RECURSIVE ParseLoop(_, _, _, _)
ParseLoop(data, offset, chunks, seen) ==
  IF ~(offset < Len(data)) \/ offset + 8 > Len(data)
  THEN [chunks |-> chunks, returns |-> TRUE]
  ELSE IF offset \in seen
  THEN [chunks |-> chunks, returns |-> FALSE]
  ELSE LET chunk == ChunkAt(data, offset)
       IN  ParseLoop(data, NextOffset(offset, chunk.length),
                     Append(chunks, chunk), seen \cup {offset})

ParseRun(data) == ParseLoop(data, 8, <<>>, {})
parsePNGChunks(data) == ParseRun(data).chunks

\* (mutant: the code unit stored as a Uint8Array stores any number, modulo 256)
lowBytesOf(str) ==
  IF Len(str) = 0 THEN <<>>
  ELSE [i \in 1..Len(str) |-> str[i] % 256]

\* bytes[i] = charCode <= 255 ? charCode : 63
stringToLatin1Bytes(str) ==
  IF Len(str) = 0 THEN <<>>
  ELSE [i \in 1..Len(str) |-> IF str[i] <= 255 THEN str[i] ELSE 63]

\* the chunk types the code and its tests name
ChunkType ==
  [IHDR |-> <<73, 72, 68, 82>>, IDAT |-> <<73, 68, 65, 84>>,
   IEND |-> <<73, 69, 78, 68>>, tEXt |-> <<116, 69, 88, 116>>]

\* (mutant: the CRC written low byte first)
CrcBytesLittleEndian(crc) ==
  <<JsAnd255(crc), JsAnd255(JsUshr(crc, 8)),
    JsAnd255(JsUshr(crc, 16)), JsAnd255(JsUshr(JsUshr(crc, 16), 8))>>

\* crcBytes[0..3] = (crc >>> 24) & 0xFF, ..., crc & 0xFF
CrcBytes(crc) ==
  <<JsAnd255(JsUshr(JsUshr(crc, 16), 8)), JsAnd255(JsUshr(crc, 16)),
    JsAnd255(JsUshr(crc, 8)), JsAnd255(crc)>>

NullChunk == [type |-> <<>>, data |-> <<>>, crc |-> <<>>, length |-> -1]

\* a createTextChunk without the test of the keyword's length
createTextChunkUnchecked(keyword, text) ==
  LET chunkData == stringToLatin1Bytes(keyword) \o <<0>> \o stringToLatin1Bytes(text)
  IN  [type   |-> ChunkType.tEXt,
       data   |-> chunkData,
       crc    |-> CrcBytes(calculateCRC32(stringToLatin1Bytes(ChunkType.tEXt) \o chunkData)),
       length |-> Len(chunkData)]

createTextChunk(keyword, text) ==
  IF Len(keyword) = 0 \/ Len(keyword) > 79 THEN NullChunk
  ELSE LET keywordBytes == stringToLatin1Bytes(keyword)
           textBytes == stringToLatin1Bytes(text)
           chunkData == keywordBytes \o <<0>> \o textBytes
           crcData == stringToLatin1Bytes(ChunkType.tEXt) \o chunkData
       IN  [type   |-> ChunkType.tEXt,
            data   |-> chunkData,
            crc    |-> CrcBytes(calculateCRC32(crcData)),
            length |-> Len(chunkData)]

(***************************************************************************)
(* buildPNG.  result[k] = v outside the array is ignored; result.set(a, o) *)
(* throws a RangeError when a does not fit at o; new Uint8Array(n) throws  *)
(* one when n is negative.                                                 *)
(***************************************************************************)
RECURSIVE TotalSize(_, _)
TotalSize(chunks, i) ==
  IF i > Len(chunks) THEN 8 ELSE 12 + chunks[i].length + TotalSize(chunks, i + 1)

Zeros(n) == IF n <= 0 THEN <<>> ELSE [i \in 1..n |-> 0]

WriteIndex(result, k, v) ==
  IF k >= 0 /\ k < Len(result) THEN [result EXCEPT ![k + 1] = v] ELSE result

SetFits(result, array, offset) ==
  offset >= 0 /\ offset + Len(array) <= Len(result)

TypedArraySet(result, array, offset) ==
  IF Len(result) = 0 THEN result
  ELSE [i \in 1..Len(result) |->
          IF i - offset \in 1..Len(array) THEN array[i - offset] ELSE result[i]]

\* (n >>> shift) & 0xFF for a 32-bit n
LengthByte(n, shift) == (n \div (2 ^ shift)) % 256

\* result[offset..offset + 3] = chunk.length, big-endian
WriteLength(result, offset, length) ==
  WriteIndex(WriteIndex(WriteIndex(WriteIndex(result,
    offset, LengthByte(length, 24)),
    offset + 1, LengthByte(length, 16)),
    offset + 2, LengthByte(length, 8)),
    offset + 3, LengthByte(length, 0))

Thrown(w) == [result |-> w.result, offset |-> w.offset, threw |-> TRUE]

\* result.set(array, offset), unless an earlier statement has thrown
SetAt(w, array, offset) ==
  IF w.threw THEN w
  ELSE IF ~SetFits(w.result, array, offset) THEN Thrown(w)
  ELSE [w EXCEPT !.result = TypedArraySet(w.result, array, offset)]

\* the body of the second loop of buildPNG, from the offset w.offset
WriteChunk(w, chunk) ==
  LET written ==
        SetAt(SetAt(SetAt([w EXCEPT !.result = WriteLength(w.result, w.offset, chunk.length)],
                          stringToLatin1Bytes(chunk.type), w.offset + 4),
                    chunk.data, w.offset + 8),
              chunk.crc, w.offset + 8 + chunk.length)
  IN  [written EXCEPT !.offset = w.offset + 12 + chunk.length]

RECURSIVE WriteChunks(_, _, _)
WriteChunks(w, chunks, i) ==
  IF i > Len(chunks) \/ w.threw THEN w
  ELSE WriteChunks(WriteChunk(w, chunks[i]), chunks, i + 1)

\* new Uint8Array(totalSize) and result.set(signature, 0)
Allocate(totalSize) ==
  IF totalSize < 0 THEN [result |-> <<>>, offset |-> 0, threw |-> TRUE]
  ELSE [SetAt([result |-> Zeros(totalSize), offset |-> 0, threw |-> FALSE],
              pngSignature, 0) EXCEPT !.offset = 8]

\* [threw, result]: the array returned, or a RangeError
buildPNG(chunks) == WriteChunks(Allocate(TotalSize(chunks, 1)), chunks, 1)

(***************************************************************************)
(* prepareTextMetadata and createMetadataChunks.  String literals of the   *)
(* code, as code units.                                                    *)
(***************************************************************************)
Text ==
  [KeySource |-> <<83, 111, 117, 114, 99, 101>>,    \* "Source"
   KeyPositivePrompt |-> <<80, 111, 115, 105, 116, 105, 118, 101, 32, 80, 114, 111, 109, 112, 116>>,    \* "Positive Prompt"
   KeyNegativePrompt |-> <<78, 101, 103, 97, 116, 105, 118, 101, 32, 80, 114, 111, 109, 112, 116>>,    \* "Negative Prompt"
   KeySteps |-> <<83, 116, 101, 112, 115>>,    \* "Steps"
   KeySampler |-> <<83, 97, 109, 112, 108, 101, 114>>,    \* "Sampler"
   KeyCfgScale |-> <<67, 70, 71, 32, 83, 99, 97, 108, 101>>,    \* "CFG Scale"
   KeySeed |-> <<83, 101, 101, 100>>,    \* "Seed"
   KeyModel |-> <<77, 111, 100, 101, 108>>,    \* "Model"
   KeySize |-> <<83, 105, 122, 101>>,    \* "Size"
   KeyParameters |-> <<112, 97, 114, 97, 109, 101, 116, 101, 114, 115>>,    \* "parameters"
   KeySoftware |-> <<83, 111, 102, 116, 119, 97, 114, 101>>,    \* "Software"
   KeyProcessingDate |-> <<80, 114, 111, 99, 101, 115, 115, 105, 110, 103, 32, 68, 97, 116, 101>>,    \* "Processing Date"
   SoftwareName |-> <<80, 105, 120, 101, 108, 97, 116, 101, 32, 69, 100, 105, 116, 111, 114, 32, 118, 50, 46, 48>>,    \* "Pixelate Editor v2.0"
   ExifPrefix |-> <<69, 88, 73, 70, 58>>,    \* "EXIF:"
   LblNegativePrompt |-> <<78, 101, 103, 97, 116, 105, 118, 101, 32, 112, 114, 111, 109, 112, 116, 58, 32>>,    \* "Negative prompt: "
   LblSteps |-> <<83, 116, 101, 112, 115, 58, 32>>,    \* "Steps: "
   LblSampler |-> <<83, 97, 109, 112, 108, 101, 114, 58, 32>>,    \* "Sampler: "
   LblScheduleType |-> <<83, 99, 104, 101, 100, 117, 108, 101, 32, 116, 121, 112, 101, 58, 32>>,    \* "Schedule type: "
   LblCfgScale |-> <<67, 70, 71, 32, 115, 99, 97, 108, 101, 58, 32>>,    \* "CFG scale: "
   LblSeed |-> <<83, 101, 101, 100, 58, 32>>,    \* "Seed: "
   LblSize |-> <<83, 105, 122, 101, 58, 32>>,    \* "Size: "
   LblModel |-> <<77, 111, 100, 101, 108, 58, 32>>,    \* "Model: "
   LblModelHash |-> <<77, 111, 100, 101, 108, 32, 104, 97, 115, 104, 58, 32>>,    \* "Model hash: "
   LblVae |-> <<86, 65, 69, 58, 32>>,    \* "VAE: "
   LblVaeHash |-> <<86, 65, 69, 32, 104, 97, 115, 104, 58, 32>>,    \* "VAE hash: "
   LblVersion |-> <<86, 101, 114, 115, 105, 111, 110, 58, 32>>,    \* "Version: "
   CommaSpace |-> <<44, 32>>,    \* ", "
   Newline |-> <<10>>]    \* "\n"

\* a string is truthy when it is present and not empty; an absent field is <<>>
Truthy(str) == Len(str) > 0

\* textData[keyword] = text: a new key goes last, an existing key keeps its place
RECURSIVE KeyIndex(_, _, _)
KeyIndex(textData, keyword, i) ==
  IF i > Len(textData) THEN 0
  ELSE IF textData[i].keyword = keyword THEN i
  ELSE KeyIndex(textData, keyword, i + 1)

Put(textData, keyword, text) ==
  LET k == KeyIndex(textData, keyword, 1)
  IN  IF k = 0 THEN Append(textData, [keyword |-> keyword, text |-> text])
      ELSE [textData EXCEPT ![k] = [keyword |-> keyword, text |-> text]]

\* (mutant: the assignment without its test)
PutAlways(textData, cond, keyword, text) == Put(textData, keyword, text)

PutIf(textData, cond, keyword, text) ==
  IF cond THEN Put(textData, keyword, text) ELSE textData

\* Array.prototype.join
RECURSIVE join(_, _, _)
join(parts, sep, i) ==
  IF i > Len(parts) THEN <<>>
  ELSE IF i = Len(parts) THEN parts[i]
  ELSE parts[i] \o sep \o join(parts, sep, i + 1)

PushIf(parts, cond, str) == IF cond THEN Append(parts, str) ELSE parts

\* the single-field entries
ParameterEntries(textData, params) ==
  LET t1 == PutIf(textData, Truthy(params.positivePrompt), Text.KeyPositivePrompt, params.positivePrompt)
      t2 == PutIf(t1, Truthy(params.negativePrompt), Text.KeyNegativePrompt, params.negativePrompt)
      t3 == PutIf(t2, Truthy(params.steps), Text.KeySteps, params.steps)
      t4 == PutIf(t3, Truthy(params.sampler), Text.KeySampler, params.sampler)
      t5 == PutIf(t4, Truthy(params.cfgScale), Text.KeyCfgScale, params.cfgScale)
      t6 == PutIf(t5, Truthy(params.seed), Text.KeySeed, params.seed)
      t7 == PutIf(t6, Truthy(params.model), Text.KeyModel, params.model)
  IN  PutIf(t7, Truthy(params.size), Text.KeySize, params.size)

\* paramParts
ParamParts(params) ==
  LET p1 == PushIf(<<>>, Truthy(params.steps), Text.LblSteps \o params.steps)
      p2 == PushIf(p1, Truthy(params.sampler), Text.LblSampler \o params.sampler)
      p3 == PushIf(p2, Truthy(params.scheduleType), Text.LblScheduleType \o params.scheduleType)
      p4 == PushIf(p3, Truthy(params.cfgScale), Text.LblCfgScale \o params.cfgScale)
      p5 == PushIf(p4, Truthy(params.seed), Text.LblSeed \o params.seed)
      p6 == PushIf(p5, Truthy(params.size), Text.LblSize \o params.size)
      p7 == PushIf(p6, Truthy(params.model), Text.LblModel \o params.model)
      p8 == PushIf(p7, Truthy(params.modelHash), Text.LblModelHash \o params.modelHash)
      p9 == PushIf(p8, Truthy(params.vae), Text.LblVae \o params.vae)
      p10 == PushIf(p9, Truthy(params.vaeHash), Text.LblVaeHash \o params.vaeHash)
  IN  PushIf(p10, Truthy(params.version), Text.LblVersion \o params.version)

\* allParams
AllParams(params) ==
  LET a1 == PushIf(<<>>, Truthy(params.positivePrompt), params.positivePrompt)
      a2 == PushIf(a1, Truthy(params.negativePrompt), Text.LblNegativePrompt \o params.negativePrompt)
      paramParts == ParamParts(params)
  IN  PushIf(a2, Len(paramParts) > 0, join(paramParts, Text.CommaSpace, 1))

\* the loop over Object.entries(metadata.exif); a value that is not a string
\* is skipped
RECURSIVE ExifEntries(_, _, _)
ExifEntries(textData, exif, i) ==
  IF i > Len(exif) THEN textData
  ELSE ExifEntries(PutIf(textData, exif[i].isString /\ Truthy(exif[i].value),
                         Text.ExifPrefix \o exif[i].key, exif[i].value),
                   exif, i + 1)

\* now is the value of new Date().toISOString()
prepareTextMetadata(metadata, now) ==
  LET t1 == PutIf(<<>>, Truthy(metadata.name), Text.KeySource, metadata.name)
      t2 == IF metadata.hasParsedParameters
            THEN LET params == metadata.parsedParameters
                     allParams == AllParams(params)
                 IN  PutIf(ParameterEntries(t1, params), Len(allParams) > 0,
                           Text.KeyParameters, join(allParams, Text.Newline, 1))
            ELSE t1
      t3 == IF metadata.hasExif THEN ExifEntries(t2, metadata.exif, 1) ELSE t2
  IN  Put(Put(t3, Text.KeySoftware, Text.SoftwareName), Text.KeyProcessingDate, now)

\* if (chunk) chunks.push(chunk)
PushChunk(chunks, chunk) == IF chunk = NullChunk THEN chunks ELSE Append(chunks, chunk)

\* the loop of createMetadataChunks over Object.entries(textData)
RECURSIVE TextChunks(_, _, _)
TextChunks(chunks, textData, i) ==
  IF i > Len(textData) THEN chunks
  ELSE TextChunks(IF Truthy(textData[i].text)
                  THEN PushChunk(chunks, createTextChunk(textData[i].keyword,
                                                         textData[i].text))
                  ELSE chunks,
                  textData, i + 1)

createMetadataChunks(metadata, now) ==
  TextChunks(<<>>, prepareTextMetadata(metadata, now), 1)

(***************************************************************************)
(* addMetadataToPNG                                                        *)
(***************************************************************************)
\* chunks.findIndex(chunk => chunk.type === 'IEND'), 0-based; -1 when absent
RECURSIVE findIndexOfIEND(_, _)
findIndexOfIEND(chunks, i) ==
  IF i > Len(chunks) THEN -1
  ELSE IF chunks[i].type = ChunkType.IEND THEN i - 1
  ELSE findIndexOfIEND(chunks, i + 1)

\* an insertion one place further on, after the chunk at index
SpliceAfter(chunks, index, items) ==
  SubSeq(chunks, 1, index + 1) \o items \o SubSeq(chunks, index + 2, Len(chunks))

\* chunks.splice(index, 0, ...items) for an index inside the array
splice(chunks, index, items) ==
  SubSeq(chunks, 1, index) \o items \o SubSeq(chunks, index + 1, Len(chunks))

NoIENDMessage == "Invalid PNG: no IEND chunk found"

\* [outcome, cause, chunks, built, result]: outcome is "returned", "threw" or
\* "diverged" (parsePNGChunks never comes back); chunks is the list handed to
\* buildPNG; fault is an allocation failure of the environment
AddResult(outcome, cause, chunks, built, result) ==
  [outcome |-> outcome, cause |-> cause, chunks |-> chunks, built |-> built,
   result |-> result]

\* the outcome of buildPNG(chunks), given what it returned or threw
Rebuilt(chunks, built, fault) ==
  IF fault = "build" \/ built.threw
  THEN AddResult("threw", "RangeError", chunks, TRUE, <<>>)
  ELSE AddResult("returned", "", chunks, TRUE, built.result)

\* return this.buildPNG(chunks)
Rebuild(chunks, fault) == Rebuilt(chunks, buildPNG(chunks), fault)

\* the statements after the two calls that fill chunks and metadataChunks
InsertAndBuild(chunks, iendIndex, metadataChunks, fault) ==
  IF iendIndex = -1 THEN AddResult("threw", NoIENDMessage, chunks, FALSE, <<>>)
  ELSE Rebuild(splice(chunks, iendIndex, metadataChunks), fault)

AfterParse(run0, metadata, now, fault) ==
  IF ~run0.returns THEN AddResult("diverged", "", <<>>, FALSE, <<>>)
  ELSE IF fault = "chunks" THEN AddResult("threw", "RangeError", run0.chunks, FALSE, <<>>)
  ELSE InsertAndBuild(run0.chunks, findIndexOfIEND(run0.chunks, 1),
                      createMetadataChunks(metadata, now), fault)

addMetadataToPNG(pngData, metadata, now, fault) ==
  AfterParse(ParseRun(pngData), metadata, now, fault)

(***************************************************************************)
(* Properties of the pipeline (Spec)                                       *)
(***************************************************************************)
StartMessage == <<"Starting image processing...">>
CompleteMessage == <<"Processing complete!">>

\* The position of a stage in the documented order.
StageRank(s) ==
  CASE s = "downscale" -> 1
    [] s \in {"quantize", "posterize"} -> 2
    [] s = "rgb555" -> 3
    [] s = "snescrop" -> 4
    [] s = "rescale" -> 5

\* The parameter condition under which a stage may run.
StageCondition(s, p) ==
  CASE s = "downscale" -> p.scale > 1
    [] s = "quantize" -> p.quantize
    [] s = "posterize" -> ~p.quantize
    [] s = "rgb555" -> p.rgb555
    [] s = "snescrop" -> p.snescrop
    [] s = "rescale" -> p.rescale /\ p.scale > 1

\* The stage a progress message reports.
StageOfMessage(m) ==
  CASE m[1] = "Downscaled" -> "downscale"
    [] m[1] = "Quantized" -> "quantize"
    [] m[1] = "Applied color reduction" -> "posterize"
    [] m[1] = "Applied RGB555 color conversion" -> "rgb555"
    [] m[1] = "Cropped to SNES size" -> "snescrop"
    [] m[1] = "Rescaled" -> "rescale"
    [] OTHER -> "none"

ColourStages(ran) == {i \in 1..Len(ran) : ran[i] \in {"quantize", "posterize"}}

\* C1: at every point of every processImage run the stages that have run
\* are in the order downscale, colour reduction, RGB555, SNES crop,
\* rescale (so each ran at most once and none after a later one), each ran
\* only under its parameter condition, the sink's first message is
\* 'Starting image processing...', the i-th stage that ran reported right
\* after the two opening messages in position i, and a run that returns
\* has 'Processing complete!' as its last message and nowhere else.
C1_StageOrder ==
  LET ran == run.ran
      sink == run.sink
  IN  /\ \A i, j \in 1..Len(ran) : i < j => StageRank(ran[i]) < StageRank(ran[j])
      /\ \A i \in 1..Len(ran) : StageCondition(ran[i], run.params)
      /\ sink # <<>> => sink[1] = StartMessage
      /\ \A i \in 2..Len(sink) : sink[i] # StartMessage
      /\ \A i \in 1..Len(ran) : Len(sink) >= i + 2 /\ StageOfMessage(sink[i + 2]) = ran[i]
      /\ run.pc = "returned" =>
           /\ Len(sink) = Len(ran) + 3
           /\ sink[Len(sink)] = CompleteMessage
           /\ \A i \in 1..(Len(sink) - 1) : sink[i] # CompleteMessage
      /\ run.pc # "returned" => \A i \in 1..Len(sink) : sink[i] # CompleteMessage

\* A run that returned after all five stages ran.
C1_Witness == run.pc = "returned" /\ Len(run.ran) = 5

\* C2: every run that returns applied exactly one colour-reduction stage,
\* quantizeColors when quantize is set and posterizeColors otherwise, for
\* every colour count including 256.
C2_ColourStageAlwaysRuns ==
  run.pc = "returned" =>
    /\ Cardinality(ColourStages(run.ran)) = 1
    /\ \A i \in ColourStages(run.ran) :
         run.ran[i] = IF run.params.quantize THEN "quantize" ELSE "posterize"

\* C3: a run in which a stage raised rejects with the one error 'Image
\* processing failed: ' + cause, never returns image data, has emitted no
\* 'Processing complete!', and PixelateApp.processImage leaves the canvas
\* as it was.
C3_FailedRun ==
  /\ [](run.pc \in {"threw", "rejected"} =>
          /\ run.cause # ""
          /\ \A i \in 1..Len(run.sink) : run.sink[i] # CompleteMessage)
  /\ [](run.pc = "rejected" => run.error = <<"Image processing failed: ", run.cause>>)
  /\ [][(run.pc = "threw" => run'.pc = "rejected" /\ canvas' = canvas)
        /\ (run.pc = "rejected" => run'.pc = "idle" /\ canvas' = canvas)]_vars

\* A run rejects after an earlier stage had already transformed the image,
\* while the canvas shows the result of an earlier run.
C3_Witness == run.pc = "rejected" /\ Len(run.ran) >= 1 /\ canvas.kind = "data"

\* the width and height a run's image has after the crop stage
SizeAfterCrop(image, p) ==
  LET w == IF p.scale > 1 THEN FileW(image) \div p.scale ELSE FileW(image)
      h == IF p.scale > 1 THEN FileH(image) \div p.scale ELSE FileH(image)
  IN  IF p.snescrop THEN <<Min(256, w), Min(224, h)>> ELSE <<w, h>>

Ran(stage) == \E i \in 1..Len(run.ran) : run.ran[i] = stage

\* C18 as stated: at every point of a run the current buffer has
\* currentWidth * currentHeight * 4 bytes and currentWidth, currentHeight are
\* the width and height of the current ImageData.
C18_TrackedSizeIsCurrent ==
  /\ run.data.len = run.w * run.h * 4
  /\ run.w = run.data.width
  /\ run.h = run.data.height

\* C18, amended: at every point of a run the current buffer has width *
\* height * 4 bytes for the width and height of the current ImageData;
\* currentWidth and currentHeight are that width and height until the
\* rescale stage ran, and from then on they keep the size before rescaling,
\* the current ImageData being scale times as wide and high.
C18_LengthIsCurrentSize ==
  /\ run.data.len = run.data.width * run.data.height * 4
  /\ IF Ran("rescale")
     THEN /\ run.data.width = run.params.scale * run.w
          /\ run.data.height = run.params.scale * run.h
     ELSE /\ run.w = run.data.width
          /\ run.h = run.data.height

\* a run stands after its rescale stage, which doubled the cropped image
C18_Witness ==
  /\ run.pc = "complete"
  /\ Ran("rescale") /\ Ran("snescrop") /\ Ran("downscale")
  /\ run.w = 256 /\ run.data.width = 512
  /\ run.data.len = 512 * 448 * 4

(***************************************************************************)
(* Properties of the handlers (SpecApp)                                    *)
(***************************************************************************)
\* C4: the pipeline starts, and saveImage reads currentMetadata, only when
\* no handleFileLoad is in flight.
C4_NoLoadInFlight ==
  [][((PipelineIdle /\ run'.pc # "idle") \/ (save.pc = "blob" /\ save'.pc = "preserve"))
       => LoadsInFlight = 0]_vars

\* the fields of the file that every result of extractMetadata holds
FileFields == {"format", "size", "lastModified", "name", "type"}

\* C20: extractMetadata never rejects: when reading the file or decoding
\* the tags fails it resolves to a record with format, size, lastModified,
\* name and type of the file and an error message, and handleFileLoad, with
\* that record as currentMetadata, goes on to loadImageFromFile.
C20_ExtractionNeverRejects ==
  /\ [](\A f \in Files, fault \in ExtractFaults :
          LET settled == extractMetadata(f, fault)
          IN  /\ ~settled.rejected
              /\ FileFields \subseteq DOMAIN settled.value
              /\ \A k \in FileFields : settled.value[k] = FileProperties(f)[k]
              /\ fault # "none" => /\ "error" \in DOMAIN settled.value
                                   /\ settled.value.error # "")
  /\ [][\A f \in Files :
          loads'[<<f, "meta">>] < loads[<<f, "meta">>] =>
            /\ loads'[<<f, "decode">>] = loads[<<f, "decode">>] + 1
            /\ loading' = loading
            /\ FileFields \subseteq DOMAIN currentMetadata'
            /\ \A k \in FileFields : currentMetadata'[k] = FileProperties(f)[k]]_vars

\* after a failed extraction the image was loaded and is displayed
C20_Witness ==
  /\ "error" \in DOMAIN currentMetadata
  /\ currentMetadata.error = "Read error"
  /\ currentImage = currentMetadata.name
  /\ canvas = displayImage(currentImage)
  /\ ~loading

(***************************************************************************)
(* SpecPng: calls of MetadataHandler.preserveMetadata and of buildPNG /    *)
(* parsePNGChunks on bounded inputs.                                       *)
(***************************************************************************)
MaxChunks == 2

\* IHDR, IDAT, IEND: the chunks of the test suite's minimal PNG; its IDAT
\* carries a CRC that is not the checksum of its content.  Euro: a chunk whose
\* 4-character type has a code unit above 255 ("IDA" and U+20AC).  Cut: what
\* parsePNGChunks returns for a chunk cut short after two data bytes.
Chunk ==
  [IHDR |-> [type |-> ChunkType.IHDR,
             data |-> <<0, 0, 0, 1, 0, 0, 0, 1, 8, 2, 0, 0, 0>>,
             crc |-> <<144, 119, 83, 222>>, length |-> 13],
   IDAT |-> [type |-> ChunkType.IDAT,
             data |-> <<120, 156, 98, 0, 0, 0, 2, 0, 1>>,
             crc |-> <<226, 33, 188, 51>>, length |-> 9],
   IEND |-> [type |-> ChunkType.IEND, data |-> <<>>,
             crc |-> <<174, 66, 96, 130>>, length |-> 0],
   Euro |-> [type |-> <<73, 68, 65, 8364>>, data |-> <<7>>,
             crc |-> <<0, 0, 0, 0>>, length |-> 1],
   Cut  |-> [type |-> ChunkType.IDAT, data |-> <<1, 2>>, crc |-> <<>>,
             length |-> 5]]

\* the bytes of a chunk in a stream
Wire(chunk) ==
  <<LengthByte(chunk.length, 24), LengthByte(chunk.length, 16),
    LengthByte(chunk.length, 8), LengthByte(chunk.length, 0)>>
  \o chunk.type \o chunk.data \o chunk.crc

RECURSIVE WireAll(_, _)
WireAll(chunks, i) ==
  IF i > Len(chunks) THEN <<>> ELSE Wire(chunks[i]) \o WireAll(chunks, i + 1)

SeqsUpTo(S, n) == UNION {[1..k -> S] : k \in 0..n}

\* PNG-signed streams: whole chunks, followed by nothing, by a closing IEND,
\* by the test suite's header of a 13-byte IHDR with nothing after it, by a
\* header whose length field is -12, or by a header whose length field is -11
PngStreams ==
  {pngSignature \o WireAll(body, 1) \o ending :
     body \in SeqsUpTo({Chunk.IHDR, Chunk.IDAT, Chunk.IEND}, MaxChunks),
     ending \in {<<>>,
                 Wire(Chunk.IEND),
                 <<0, 0, 0, 13>> \o ChunkType.IHDR,
                 <<255, 255, 255, 244>> \o ChunkType.IDAT \o <<0, 0, 0, 0>>,
                 <<255, 255, 255, 245>> \o ChunkType.IDAT}}

\* streams that are not PNG: empty, cut inside the signature, the test
\* suite's JPEG header, and a PNG whose signature has a wrong last byte
OtherStreams ==
  {<<>>,
   SubSeq(pngSignature, 1, 4),
   SubSeq(pngSignature, 1, 7),
   <<255, 216, 255, 224>>,
   <<255, 216, 255, 224, 0, 16, 74, 70, 73, 70>>,
   SubSeq(pngSignature, 1, 7) \o <<0>> \o WireAll(<<Chunk.IHDR, Chunk.IEND>>, 1)}

InputBlobId == 1
NewBlobId == 2
InputBlobs == {[id |-> InputBlobId, bytes |-> b] : b \in PngStreams \cup OtherStreams}

\* plain: the record extractMetadata returns when reading fails, or for a
\* file without AI or EXIF data, named "a.png"; empty: {} (no name either);
\* ai: AI parameters and EXIF entries, one of them not a string
SampleMetadata ==
  [plain |-> [NullMetadata EXCEPT !.null = FALSE, !.name = <<97, 46, 112, 110, 103>>],
   empty |-> [NullMetadata EXCEPT !.null = FALSE],
   ai    |-> [null |-> FALSE, name |-> <<97, 46, 112, 110, 103>>, hasParsedParameters |-> TRUE,
               parsedParameters |->
                 [NoParsedParameters EXCEPT !.positivePrompt = <<99, 97, 116>>,
                                            !.steps = <<50, 48>>,
                                            !.seed = <<55>>],
               hasExif |-> TRUE,
               exif |-> <<[key |-> <<77, 97, 107, 101>>, value |-> <<88>>, isString |-> TRUE],
                          [key |-> <<73, 83, 79>>, value |-> <<>>, isString |-> FALSE]>>]]

MetadataSet ==
  {NullMetadata, SampleMetadata.plain, SampleMetadata.empty, SampleMetadata.ai}

\* values of new Date().toISOString()
IsoDates == {<<50, 48, 50, 52, 45, 48, 49, 45, 48, 49, 84, 48, 48, 58, 48, 48, 58, 48, 48, 46, 48, 48, 48, 90>>}

\* what the environment can refuse: reading the blob, or an allocation while
\* the chunks are created or the stream is rebuilt
Faults == {"none", "read", "chunks", "build"}

TryResult(outcome, value, built, raised, parsed, chunks) ==
  [outcome |-> outcome, value |-> value, built |-> built, raised |-> raised,
   parsed |-> parsed, chunks |-> chunks]

\* return new Blob([pngWithMetadata], { type: 'image/png' })
NewBlob(imageBlob, parsed, added) ==
  TryResult(added.outcome,
            IF added.outcome = "returned"
            THEN [id |-> NewBlobId, bytes |-> added.result] ELSE imageBlob,
            added.built, added.cause, parsed, added.chunks)

\* the try block of preserveMetadata
TryBody(imageBlob, metadata, now, fault) ==
  IF fault = "read"
  THEN TryResult("threw", imageBlob, FALSE, "read error", <<>>, <<>>)
  ELSE IF ~isPNG(imageBlob.bytes)
  THEN TryResult("returned", imageBlob, FALSE, "", <<>>, <<>>)
  ELSE NewBlob(imageBlob, parsePNGChunks(imageBlob.bytes),
               addMetadataToPNG(imageBlob.bytes, metadata, now, fault))

\* a handler that lets the exception out
PreserveRethrow(t, imageBlob) ==
  IF t.outcome = "threw" THEN [t EXCEPT !.outcome = "rejected"] ELSE t

\* catch (error) { ... return imageBlob; }
PreserveCatch(t, imageBlob) ==
  IF t.outcome = "threw"
  THEN [t EXCEPT !.outcome = "returned", !.value = imageBlob]
  ELSE t

PcOfOutcome(outcome) ==
  CASE outcome = "returned" -> "settled"
    [] outcome = "rejected" -> "rejected"
    [] OTHER -> "pending"

AppAtRest ==
  /\ currentImage = NoImage
  /\ currentMetadata = NoMetadata
  /\ originalFileName = NoImage
  /\ canvas = Blank
  /\ loading = FALSE
  /\ buttonsEnabled = FALSE
  /\ loads = NoLoads
  /\ save = FreeSave
  /\ run = IdleRun

\* preserveMetadata(imageBlob, metadata) up to its first await
PreserveMetadataCall ==
  /\ png.pc = "idle"
  /\ \E imageBlob \in InputBlobs, metadata \in MetadataSet :
       png' = IF metadata.null
              THEN [IdlePng EXCEPT !.pc = "settled", !.call = "preserve",
                                   !.blob = imageBlob, !.metadata = metadata,
                                   !.result = imageBlob]
              ELSE [IdlePng EXCEPT !.pc = "reading", !.call = "preserve",
                                   !.blob = imageBlob, !.metadata = metadata]
  /\ UNCHANGED <<appVars, ioVars, run, crcTable, crcCall, lastCall>>

\* the call once the promise of preserveMetadata has its outcome t
Settle(call, t) ==
  [call EXCEPT !.pc = PcOfOutcome(t.outcome),
               !.result = IF t.outcome = "returned" THEN t.value ELSE NoBlob,
               !.built = t.built,
               !.raised = t.raised,
               !.parsed = t.parsed,
               !.chunks = t.chunks,
               !.written = IF t.outcome = "returned" /\ t.value.id = NewBlobId
                           THEN t.value.bytes ELSE <<>>]

\* imageBlob.arrayBuffer() settles and the rest of preserveMetadata runs;
\* createTextChunk leaves the CRC table behind
ArrayBufferSettled ==
  /\ png.pc = "reading"
  /\ \E fault \in Faults, now \in IsoDates :
       png' = Settle(png, PreserveCatch(TryBody(png.blob, png.metadata, now, fault),
                                        png.blob))
  /\ crcTable' = IF Len(png'.chunks) > Len(png'.parsed) THEN CrcTableFor(crcTable)
                 ELSE crcTable
  /\ UNCHANGED <<appVars, ioVars, run, crcCall, lastCall>>

BuildInputs == SeqsUpTo({Chunk.IHDR, Chunk.IDAT, Chunk.IEND, Chunk.Euro, Chunk.Cut}, MaxChunks)

\* the call once buildPNG has returned or thrown b
Built(chunks, b) ==
  [IdlePng EXCEPT !.pc = IF b.threw THEN "threw" ELSE "built",
                  !.call = "build",
                  !.chunks = chunks,
                  !.built = TRUE,
                  !.raised = IF b.threw THEN "RangeError" ELSE "",
                  !.written = IF b.threw THEN <<>> ELSE b.result]

\* buildPNG(chunks)
BuildPNGCall ==
  /\ png.pc = "idle"
  /\ \E chunks \in BuildInputs : png' = Built(chunks, buildPNG(chunks))
  /\ UNCHANGED <<appVars, ioVars, run, crcTable, crcCall, lastCall>>

\* the call once parsePNGChunks has run r on the stream
Read(call, r) ==
  [call EXCEPT !.pc = IF r.returns THEN "parsed" ELSE "pending",
               !.readback = r.chunks]

\* parsePNGChunks on the stream just written
ReadBack ==
  /\ \/ png.pc = "built"
     \/ png.pc = "settled" /\ png.result.id = NewBlobId
  /\ png' = Read(png, ParseRun(png.written))
  /\ UNCHANGED <<appVars, ioVars, run, crcTable, crcCall, lastCall>>

\* a MetadataHandler just constructed
InitCodec == AppAtRest /\ CodecAtRest

NextPng ==
  \/ PreserveMetadataCall
  \/ ArrayBufferSettled
  \/ BuildPNGCall
  \/ ReadBack

SpecPng == InitCodec /\ [][NextPng]_vars

(***************************************************************************)
(* SpecCrc: successive calls of calculateCRC32 on one MetadataHandler.     *)
(***************************************************************************)
MaxCrcLen == 3

\* "tEXt", "IEND", "a" and "123456789"
CrcVectors ==
  {ChunkType.tEXt, ChunkType.IEND, <<97>>, <<49, 50, 51, 52, 53, 54, 55, 56, 57>>}

CrcInputs == SeqsUpTo({0, 1, 128, 255}, MaxCrcLen) \cup CrcVectors

calculateCRC32Call ==
  /\ \E data \in CrcInputs :
       crcCall' = [pc |-> "returned", data |-> data,
                   value |-> CrcWith(crcTable, data),
                   built |-> (crcTable = NoCrcTable)]
  /\ crcTable' = CrcTableFor(crcTable)
  /\ UNCHANGED <<appVars, ioVars, run, png, lastCall>>

SpecCrc == InitCodec /\ [][calculateCRC32Call]_vars


(***************************************************************************)
(* Properties of preserveMetadata (SpecPng)                                *)
(***************************************************************************)
StartsWithSignature(bytes) ==
  Len(bytes) >= 8 /\ SubSeq(bytes, 1, 8) = <<137, 80, 78, 71, 13, 10, 26, 10>>

IENDPositions(chunks) == {i \in 1..Len(chunks) : chunks[i].type = <<73, 69, 78, 68>>}

Preserving == png.call = "preserve"

\* C5: when the metadata argument is null, or the blob's bytes do not start
\* with the 8-byte PNG signature (a blob shorter than 8 bytes included),
\* preserveMetadata settles with the very blob object it was given and
\* buildPNG is never called; with null metadata it does so at once.
C5_NoOpReturnsSameBlob ==
  (Preserving /\ (png.metadata.null \/ ~StartsWithSignature(png.blob.bytes))) =>
    /\ png.pc \in {"reading", "settled"}
    /\ png.metadata.null => png.pc = "settled"
    /\ png.pc = "settled" =>
         png.result = png.blob /\ ~png.built /\ png.written = <<>>

\* a settled call with metadata on a blob of 8 bytes or more that differs
\* from a PNG in one byte of the signature only
C5_Witness ==
  /\ Preserving /\ png.pc = "settled" /\ ~png.metadata.null
  /\ Len(png.blob.bytes) > 8 /\ ~StartsWithSignature(png.blob.bytes)
  /\ SubSeq(png.blob.bytes, 1, 7) = SubSeq(pngSignature, 1, 7)
  /\ png.result = png.blob

C7_InsertedBeforeIEND ==
  (Preserving /\ png.built) =>
    LET orig == png.parsed
        out == png.chunks
        n == Len(out) - Len(orig)
    IN  /\ IENDPositions(orig) # {}
        /\ n >= 0
        /\ \E k \in IENDPositions(orig) :
             /\ \A j \in IENDPositions(orig) : k <= j
             /\ SubSeq(out, 1, k - 1) = SubSeq(orig, 1, k - 1)
             /\ SubSeq(out, k + n, Len(out)) = SubSeq(orig, k, Len(orig))
             /\ \A i \in k..(k + n - 1) : out[i].type = ChunkType.tEXt
             /\ \A j \in IENDPositions(out) : k + n <= j
        /\ (orig[1].type = ChunkType.IHDR => out[1] = orig[1])

\* an IHDR, an IEND and a chunk after it, with three or more chunks inserted
C7_Witness ==
  /\ Preserving /\ png.built /\ png.pc = "settled" /\ png.result.id = NewBlobId
  /\ Len(png.parsed) >= 3 /\ png.parsed[1].type = ChunkType.IHDR
  /\ png.parsed[2].type = ChunkType.IEND
  /\ Len(png.chunks) >= Len(png.parsed) + 3

(***************************************************************************)
(* Properties of buildPNG and parsePNGChunks (SpecPng)                     *)
(***************************************************************************)
\* C8: every chunk read back from a stream that buildPNG wrote (directly, or
\* inside preserveMetadata) carries 4 CRC bytes equal to the CRC-32 of its
\* type followed by its data.
C8_WrittenCrcIsChecksum ==
  png.pc = "parsed" =>
    \A i \in 1..Len(png.readback) :
      png.readback[i].crc =
        CrcBytes(calculateCRC32(png.readback[i].type \o png.readback[i].data))

WellFormed(chunk) ==
  Len(chunk.type) = 4 /\ chunk.length = Len(chunk.data) /\ Len(chunk.crc) = 4

Latin1(str) == \A i \in 1..Len(str) : str[i] <= 255

RECURSIVE SumOfSizes(_)
SumOfSizes(chunks) ==
  IF chunks = <<>> THEN 0 ELSE 12 + Head(chunks).length + SumOfSizes(Tail(chunks))

\* buildPNG returned 8 + sum of (12 + length) bytes that start with the
\* signature, and parsePNGChunks gives back the types and the data
RoundTrips ==
  /\ png.pc \in {"built", "parsed"}
  /\ Len(png.written) = 8 + SumOfSizes(png.chunks)
  /\ StartsWithSignature(png.written)
  /\ png.pc = "parsed" =>
       /\ Len(png.readback) = Len(png.chunks)
       /\ \A i \in 1..Len(png.chunks) :
            /\ png.readback[i].type = png.chunks[i].type
            /\ png.readback[i].data = png.chunks[i].data

\* C9 as stated: for chunks with a 4-character type, length equal to the data
\* length and a 4-byte crc, buildPNG writes 8 + sum of (12 + length) bytes
\* starting with the signature and parsePNGChunks returns the same types and
\* data.
C9_RoundTripAnyType ==
  (png.call = "build" /\ \A i \in 1..Len(png.chunks) : WellFormed(png.chunks[i]))
    => RoundTrips

\* C9, amended: the same, for chunks whose type has four characters with
\* codes up to 255.
C9_RoundTripLatin1 ==
  (png.call = "build"
     /\ \A i \in 1..Len(png.chunks) :
          WellFormed(png.chunks[i]) /\ Latin1(png.chunks[i].type))
    => RoundTrips

\* two chunks read back, one of them the IDAT whose crc is not its checksum
C9_Witness ==
  /\ png.call = "build" /\ png.pc = "parsed"
  /\ Len(png.chunks) >= 2 /\ png.chunks[1] = Chunk.IHDR /\ png.chunks[2] = Chunk.IDAT
  /\ Len(png.readback) = Len(png.chunks)

(***************************************************************************)
(* Properties of calculateCRC32 (SpecCrc).  The reference is the           *)
(* bit-at-a-time CRC-32 on a register of 32 bits, least significant first. *)
(***************************************************************************)
Bits(n, k) == [i \in 1..k |-> (n \div (2 ^ (i - 1))) % 2]
RefPolynomial == Bits(33568, 16) \o Bits(60856, 16)      \* 0xEDB88320
RefOnes == [i \in 1..32 |-> 1]
XorVec(a, b) == [i \in 1..32 |-> (a[i] + b[i]) % 2]
ShiftRight(a) == [i \in 1..32 |-> IF i = 32 THEN 0 ELSE a[i + 1]]
RefRound(reg) ==
  IF reg[1] = 1 THEN XorVec(ShiftRight(reg), RefPolynomial) ELSE ShiftRight(reg)

RECURSIVE RefRounds(_, _)
RefRounds(reg, n) ==
  IF n = 0 \/ Len(reg) # 32 THEN reg ELSE RefRounds(RefRound(reg), n - 1)

RECURSIVE RefBytes(_, _, _)
RefBytes(reg, data, i) ==
  IF i > Len(data) \/ Len(reg) # 32 THEN reg
  ELSE RefBytes(RefRounds(XorVec(reg, Bits(data[i], 8) \o [j \in 1..24 |-> 0]), 8), data, i + 1)

RECURSIVE BitsValue(_, _, _)
BitsValue(reg, from, to) ==
  IF from > to THEN 0 ELSE reg[from] + (2 * BitsValue(reg, from + 1, to))

RefWord(reg) == <<BitsValue(reg, 17, 32), BitsValue(reg, 1, 16)>>

RefCrc32(data) == RefWord(XorVec(RefBytes(RefOnes, data, 1), RefOnes))

\* C10: every call returns the reflected CRC-32 of its input (polynomial
\* 0xEDB88320, register 0xFFFFFFFF at the start, XOR with 0xFFFFFFFF at the
\* end) as a value in 0..2^32-1, whether the call built the table or found
\* it cached; the empty sequence gives 0, "IEND" gives 0xAE426082 and
\* "123456789" gives 0xCBF43926; the table, once built, is the same table.
C10_StandardCrc32 ==
  /\ crcTable \in {NoCrcTable, BuildCrcTable}
  /\ crcCall.pc = "returned" =>
       /\ crcCall.value = RefCrc32(crcCall.data)
       /\ crcCall.value[1] \in 0..65535 /\ crcCall.value[2] \in 0..65535
       /\ crcCall.data = <<>> => crcCall.value = <<0, 0>>
       /\ crcCall.data = <<73, 69, 78, 68>> => crcCall.value = <<44610, 24706>>
       /\ crcCall.data = <<49, 50, 51, 52, 53, 54, 55, 56, 57>> =>
            crcCall.value = <<52212, 14630>>
       /\ crcTable = BuildCrcTable

\* a call that found the table cached and returns a value of 2^31 or more
C10_Witness ==
  /\ crcCall.pc = "returned" /\ ~crcCall.built
  /\ crcCall.data = <<49, 50, 51, 52, 53, 54, 55, 56, 57>>
  /\ crcCall.value = <<52212, 14630>>

(***************************************************************************)
(* The pixel transforms of ImageProcessor on real buffers.  An ImageData   *)
(* is [width, height, data], data the flat RGBA bytes; index k of the code *)
(* is index k + 1 here.                                                    *)
(*                                                                         *)
(* resizeImageData computes Math.floor(x * (srcWidth / destWidth)) in      *)
(* double precision: the quotient is rounded to 53 significant bits, the   *)
(* product is rounded again, and only then is the floor taken.  Numbers    *)
(* are sequences of bits, most significant first, the last 70 of them      *)
(* after the binary point.                                                 *)
(***************************************************************************)
BinaryOf(n) == [i \in 1..16 |-> (n \div (2 ^ (16 - i))) % 2]

\* the quotient of the binary number bits[i..] by d, bit by bit, and the rest,
\* continuing from rem and q: the first half of the bits, then the others
RECURSIVE LongDivide(_, _, _, _, _)
LongDivide(bits, d, i, rem, q) ==
  IF i > Len(bits) \/ rem < 0 \/ Len(q) > Len(bits) THEN [q |-> q, rem |-> rem]
  ELSE IF i = Len(bits)
  THEN LET r == (2 * rem) + bits[i]
       IN  IF r >= d THEN [q |-> Append(q, 1), rem |-> r - d]
           ELSE [q |-> Append(q, 0), rem |-> r]
  ELSE LET mid == (i + Len(bits)) \div 2
           first == LongDivide(SubSeq(bits, 1, mid), d, i, rem, q)
       IN  LongDivide(bits, d, mid + 1, first.rem, first.q)

\* round to nearest, ties to even, at 53 significant bits; sticky says that
\* bits were already lost below the last one.  bits[1] is 0.
RoundToDouble(bits, sticky) ==
  IF \A i \in 1..Len(bits) : bits[i] = 0 THEN bits
  ELSE LET n == Len(bits)
           lead == CHOOSE i \in 1..n : bits[i] = 1 /\ \A j \in 1..(i - 1) : bits[j] = 0
           last == lead + 52
       IN  IF last >= n THEN bits
           ELSE LET up == /\ bits[last + 1] = 1
                          /\ \/ sticky
                             \/ bits[last] = 1
                             \/ \E j \in (last + 2)..n : bits[j] = 1
                    z == CHOOSE i \in 1..last :
                           bits[i] = 0 /\ \A j \in (i + 1)..last : bits[j] = 1
                IN  [i \in 1..n |->
                       IF up THEN (IF i < z THEN bits[i] ELSE IF i = z THEN 1 ELSE 0)
                       ELSE IF i <= last THEN bits[i] ELSE 0]

\* the exact product of a binary number and x < 2^15, digit by digit from the
\* least significant one: digits is the number with that digit first, and so
\* is out.  The first half of digits[i..], then the others.
RECURSIVE TimesSmall(_, _, _, _, _)
TimesSmall(digits, x, i, carry, out) ==
  IF i > Len(digits) \/ carry < 0 \/ Len(out) > Len(digits)
  THEN [out |-> out, carry |-> carry]
  ELSE IF i = Len(digits)
  THEN [out |-> Append(out, ((digits[i] * x) + carry) % 2),
        carry |-> ((digits[i] * x) + carry) \div 2]
  ELSE LET mid == (i + Len(digits)) \div 2
           first == TimesSmall(SubSeq(digits, 1, mid), x, i, carry, out)
       IN  TimesSmall(digits, x, mid + 1, first.carry, first.out)

\* Math.floor(x * (s / d)) for integers 0 <= x, s < 2^15 and 0 < d < 2^15
FloorTimesRatio(x, s, d) ==
  LET quotient == LongDivide(<<0>> \o BinaryOf(s) \o [i \in 1..70 |-> 0], d, 1, 0, <<>>)
      ratio == RoundToDouble(quotient.q, quotient.rem # 0)
      n == Len(ratio)
      times == TimesSmall([i \in 1..n |-> ratio[(n + 1) - i]], x, 1, 0, <<>>)
      product == RoundToDouble(BinaryOf(times.carry) \o [i \in 1..n |-> times.out[(n + 1) - i]],
                               FALSE)
      whole == SubSeq(product, Len(product) - 100, Len(product) - 70)
  IN  SumOver([i \in 1..31 |-> whole[i] * (2 ^ (31 - i))], 1..31)

\* new ImageData(data, w, h)
NewImageData(data, w, h) ==
  IF ImageDataThrows(w, h) \/ Len(data) # 4 * w * h
  THEN [threw |-> TRUE, image |-> [width |-> 0, height |-> 0, data |-> <<>>]]
  ELSE [threw |-> FALSE, image |-> [width |-> w, height |-> h, data |-> data]]

\* ImageProcessor.resizeImageData on the bytes; a read outside srcData is
\* undefined, stored as 0
resizePixels(imageData, srcWidth, srcHeight, destWidth, destHeight) ==
  LET \* srcX for x = 0 .. destWidth - 1 and srcY for y = 0 .. destHeight - 1
      srcXs == SubSeq([x \in 1..destWidth |-> FloorTimesRatio(x - 1, srcWidth, destWidth)],
                      1, destWidth)
      srcYs == SubSeq([y \in 1..destHeight |-> FloorTimesRatio(y - 1, srcHeight, destHeight)],
                      1, destHeight)
  IN  NewImageData(
        [k \in 1..(destWidth * destHeight * 4) |->
           LET x == ((k - 1) \div 4) % destWidth
               y == ((k - 1) \div 4) \div destWidth
               srcIndex == ((srcYs[y + 1] * srcWidth) + srcXs[x + 1]) * 4
           IN  ByteAt(imageData.data, srcIndex + ((k - 1) % 4))],
        destWidth, destHeight)

\* Math.round(sum / length || 0) of one channel: halves round up
RoundedMean(pixels, channel) ==
  LET n == Len(pixels)
  IN  IF n = 0 THEN 0
      ELSE ((2 * SumOver([i \in 1..n |-> pixels[i][channel]], 1..n)) + n) \div (2 * n)

\* Math.max(...values) - Math.min(...values) of one channel
ChannelRange(pixels, channel) ==
  LET values == {pixels[i][channel] : i \in 1..Len(pixels)}
  IN  (CHOOSE v \in values : \A u \in values : u <= v)
      - (CHOOSE v \in values : \A u \in values : v <= u)

\* pixels.sort((a, b) => a[channel] - b[channel]): the sort is stable
sortByChannel(pixels, channel) ==
  LET n == Len(pixels)
      place(i) == 1 + Cardinality({j \in 1..n :
                        \/ pixels[j][channel] < pixels[i][channel]
                        \/ pixels[j][channel] = pixels[i][channel] /\ j < i})
  IN  [q \in 1..n |-> pixels[CHOOSE i \in 1..n : place(i) = q]]

\* a quantizer that never splits: the average colour alone
averageColor(pixels, colorCount) ==
  << <<RoundedMean(pixels, 1), RoundedMean(pixels, 2), RoundedMean(pixels, 3)>> >>

RECURSIVE medianCut(_, _)
medianCut(pixels, colorCount) ==
  IF colorCount = 1 \/ Len(pixels) = 0
  THEN << <<RoundedMean(pixels, 1), RoundedMean(pixels, 2), RoundedMean(pixels, 3)>> >>
  ELSE LET widest == Max(ChannelRange(pixels, 1),
                         Max(ChannelRange(pixels, 2), ChannelRange(pixels, 3)))
           \* ranges.indexOf(Math.max(...ranges))
           splitChannel == CHOOSE c \in 1..3 :
                             /\ ChannelRange(pixels, c) = widest
                             /\ \A b \in 1..(c - 1) : ChannelRange(pixels, b) # widest
           sorted == sortByChannel(pixels, splitChannel)
           mid == Len(pixels) \div 2
       IN  medianCut(SubSeq(sorted, 1, mid), colorCount \div 2)
           \o medianCut(SubSeq(sorted, mid + 1, Len(pixels)), (colorCount + 1) \div 2)

\* (mutant: the loop with <= for <, which keeps the last of equal distances)
RECURSIVE NearestFromLast(_, _, _, _, _)
NearestFromLast(pixel, palette, i, minDistance, nearestColor) ==
  IF i > Len(palette) THEN nearestColor
  ELSE LET color == palette[i]
           distance == ((pixel[1] - color[1]) * (pixel[1] - color[1]))
                       + ((pixel[2] - color[2]) * (pixel[2] - color[2]))
                       + ((pixel[3] - color[3]) * (pixel[3] - color[3]))
       IN  IF minDistance = -1 \/ distance <= minDistance
           THEN NearestFromLast(pixel, palette, i + 1, distance, color)
           ELSE NearestFromLast(pixel, palette, i + 1, minDistance, nearestColor)

\* the loop of findNearestColor from palette[i] on; distances are compared
\* as squares (Math.sqrt is strictly increasing on the integers up to
\* 3 * 255^2, whose square roots are distinct doubles), minDistance = -1
\* stands for Infinity
RECURSIVE NearestFrom(_, _, _, _, _)
NearestFrom(pixel, palette, i, minDistance, nearestColor) ==
  IF i > Len(palette) THEN nearestColor
  ELSE LET color == palette[i]
           distance == ((pixel[1] - color[1]) * (pixel[1] - color[1]))
                       + ((pixel[2] - color[2]) * (pixel[2] - color[2]))
                       + ((pixel[3] - color[3]) * (pixel[3] - color[3]))
       IN  IF minDistance = -1 \/ distance < minDistance
           THEN NearestFrom(pixel, palette, i + 1, distance, color)
           ELSE NearestFrom(pixel, palette, i + 1, minDistance, nearestColor)

\* a mapping that leaves the pixel as it is
keepColor(pixel, palette) == pixel

findNearestColor(pixel, palette) == NearestFrom(pixel, palette, 1, -1, palette[1])

\* the pixels quantizeColors collects: [data[i], data[i + 1], data[i + 2]]
PixelsOf(data) ==
  [i \in 1..(Len(data) \div 4) |-> <<data[(4 * i) - 3], data[(4 * i) - 2], data[(4 * i) - 1]>>]

\* the second loop of quantizeColors
MapToPalette(imageData, palette) ==
  NewImageData(
    [k \in 1..Len(imageData.data) |->
       IF k % 4 = 0 THEN imageData.data[k]
       ELSE findNearestColor(PixelsOf(imageData.data)[((k - 1) \div 4) + 1],
                             palette)[((k - 1) % 4) + 1]],
    imageData.width, imageData.height)

quantizePixels(imageData, colorCount) ==
  MapToPalette(imageData, medianCut(PixelsOf(imageData.data), colorCount))

\* the integer nearest to num / den, halves to the even one: what storing a
\* number into a Uint8ClampedArray does
RoundHalfEven(num, den) ==
  LET q == num \div den
      r == num % den
  IN  IF (2 * r > den) \/ (2 * r = den /\ q % 2 = 1) THEN q + 1 ELSE q

\* Math.round(v / step) * step with step = 255 / (levels - 1), stored into a
\* Uint8ClampedArray.  v / step is never half-way between two integers, so
\* Math.round is exact; the product is n * 255 / (levels - 1).
posterizePixels(imageData, colorCount) ==
  LET levels == calculatePosterizeLevels(colorCount)
  IN  NewImageData(
        [k \in 1..Len(imageData.data) |->
           IF k % 4 = 0 THEN imageData.data[k]
           ELSE Min(255, RoundHalfEven(
                  (((2 * imageData.data[k] * (levels - 1)) + 255) \div 510) * 255,
                  levels - 1))],
        imageData.width, imageData.height)

\* a conversion that rounds to the nearest multiple of 8 instead of clearing bits
roundRGB555Pixels(imageData) ==
  NewImageData(
    [k \in 1..Len(imageData.data) |->
       IF k % 4 = 0 THEN imageData.data[k]
       ELSE Min(255, ((imageData.data[k] + 4) \div 8) * 8)],
    imageData.width, imageData.height)

\* (data[i] >> 3) << 3
applyRGB555Pixels(imageData) ==
  NewImageData(
    [k \in 1..Len(imageData.data) |->
       IF k % 4 = 0 THEN imageData.data[k] ELSE (imageData.data[k] \div 8) * 8],
    imageData.width, imageData.height)

\* a crop of the top left corner instead of the centre
snesCropCorner(imageData, width, height) ==
  LET cropWidth == Min(targetWidth, width)
      cropHeight == Min(targetHeight, height)
  IN  [made |-> NewImageData(
                  [k \in 1..(cropWidth * cropHeight * 4) |->
                     ByteAt(imageData.data,
                            (((((k - 1) \div 4) \div cropWidth) * width)
                             + (((k - 1) \div 4) % cropWidth)) * 4 + ((k - 1) % 4))],
                  cropWidth, cropHeight),
       width |-> cropWidth,
       height |-> cropHeight]

snesCropPixels(imageData, width, height) ==
  LET left == Max(0, (width - targetWidth) \div 2)
      top == Max(0, (height - targetHeight) \div 2)
      cropWidth == Min(targetWidth, width - left)
      cropHeight == Min(targetHeight, height - top)
  IN  [made |-> NewImageData(
                  [k \in 1..(cropWidth * cropHeight * 4) |->
                     LET x == ((k - 1) \div 4) % cropWidth
                         y == ((k - 1) \div 4) \div cropWidth
                         srcIndex == (((top + y) * width) + (left + x)) * 4
                     IN  ByteAt(imageData.data, srcIndex + ((k - 1) % 4))],
                  cropWidth, cropHeight),
       width |-> cropWidth,
       height |-> cropHeight]

(***************************************************************************)
(* SpecCalls: one call of a synchronous function on a handler or processor *)
(* just constructed, on arguments drawn from a small pool.  lastCall names *)
(* the function, its arguments and its result.                             *)
(***************************************************************************)
MaxKeyword == 80

\* "a".repeat(n)
KeywordOf(n) == [i \in 1..n |-> 97]
KeywordLengths == {0, 1, 2, 40} \cup (78..MaxKeyword)
CallTexts == {<<>>, <<88>>, <<233, 8364>>}

\* a record with EXIF keys of 74 and 75 characters: with the prefix "EXIF_"
\* the keywords have 79 and 80
LongKeyMetadata ==
  [SampleMetadata.plain EXCEPT
     !.hasExif = TRUE,
     !.exif = <<[key |-> KeywordOf(74), value |-> <<88>>, isString |-> TRUE],
                [key |-> KeywordOf(75), value |-> <<89>>, isString |-> TRUE]>>]

CalledWith(op, in, out, heap) == [op |-> op, in |-> in, out |-> out, heap |-> heap]

\* createTextChunk(keyword, text); the CRC of a chunk leaves the table behind
createTextChunkCall ==
  /\ lastCall = IdleCall
  /\ \E n \in KeywordLengths, text \in CallTexts :
       LET chunk == createTextChunk(KeywordOf(n), text)
       IN  /\ lastCall' = CalledWith("createTextChunk",
                                     [keyword |-> KeywordOf(n), text |-> text],
                                     [chunk |-> chunk], <<>>)
           /\ crcTable' = IF chunk = NullChunk THEN crcTable ELSE CrcTableFor(crcTable)
  /\ UNCHANGED <<appVars, ioVars, run, png, crcCall>>

\* createMetadataChunks(metadata), as addMetadataToPNG calls it
createMetadataChunksCall ==
  /\ lastCall = IdleCall
  /\ \E metadata \in (MetadataSet \ {NullMetadata}) \cup {LongKeyMetadata},
         now \in IsoDates :
       lastCall' = CalledWith("createMetadataChunks",
                              [textData |-> prepareTextMetadata(metadata, now)],
                              [chunks |-> createMetadataChunks(metadata, now)], <<>>)
  /\ crcTable' = CrcTableFor(crcTable)
  /\ UNCHANGED <<appVars, ioVars, run, png, crcCall>>

MaxPixels == 3
MaxColors == 4
MaxDest == 3

\* red, green and grey of the tests, and a near-black
PixelValues == {<<255, 0, 0>>, <<0, 255, 0>>, <<128, 128, 128>>, <<0, 0, 1>>}
PixelLists == SeqsUpTo(PixelValues, MaxPixels)

\* the w x h image of the given pixels, each with an alpha of its own
ImageFrom(pixels, w, h) ==
  [width |-> w, height |-> h,
   data |-> [k \in 1..(4 * Len(pixels)) |->
               IF k % 4 = 0 THEN (85 * (k \div 4)) % 256
               ELSE pixels[((k - 1) \div 4) + 1][((k - 1) % 4) + 1]]]

\* a w x h image in which neighbouring pixels differ in every channel
Gradient(w, h) ==
  [width |-> w, height |-> h,
   data |-> SubSeq([k \in 1..(4 * w * h) |->
                      ((17 * ((k - 1) \div 4)) + (50 * ((k - 1) % 4))) % 256],
                   1, 4 * w * h)]

\* the 256 x 1 image in which each of R, G, B and alpha takes every value
\* 0..255: pixel v is (v, v + 85, v + 170, 255 - v), modulo 256
Ramp ==
  [width |-> 256, height |-> 1,
   data |-> SubSeq([k \in 1..1024 |->
                      LET v == (k - 1) \div 4
                      IN  IF k % 4 = 0 THEN 255 - v ELSE (v + (85 * ((k - 1) % 4))) % 256],
                   1, 1024)]

SmallImages ==
  {ImageFrom(pixels, Len(pixels), 1) : pixels \in PixelLists \ {<<>>}}
  \cup {ImageFrom(pixels, 1, Len(pixels)) : pixels \in PixelLists \ {<<>>}}

ResizeInputs == {Gradient(1, 1), Gradient(2, 2), Gradient(3, 2), Gradient(30, 1), Gradient(1, 30)}
DestSizes == ((0..MaxDest) \X (0..MaxDest)) \cup {<<22, 1>>, <<1, 22>>}
CropInputs == {Gradient(3, 2), Gradient(258, 1), Gradient(1, 226), Gradient(257, 2)}

\* sizes of images too large to write out byte by byte: for these the pixels
\* are kept as the list of what was done to them, as in the pipeline
LargeSizes == {<<400, 300>>, <<256, 224>>, <<300, 200>>, <<200, 300>>}

\* a result written over the input
Overwrite(heap, imageData) == <<imageData>>

\* new Uint8ClampedArray(...) and new ImageData(...): the result is an object
\* of its own, next to those that exist
NewObject(heap, imageData) == Append(heap, imageData)

\* lastCall after a transform of heap[1]: made is what new ImageData gave
Transformed(op, imageData, args, made, width, height) ==
  LET heap == IF made.threw THEN <<imageData>> ELSE NewObject(<<imageData>>, made.image)
  IN  CalledWith(op, [image |-> imageData, args |-> args],
                 [threw |-> made.threw, ref |-> IF made.threw THEN 0 ELSE Len(heap),
                  width |-> width, height |-> height],
                 heap)

resizeImageDataCall ==
  /\ lastCall = IdleCall
  /\ \E imageData \in ResizeInputs, dest \in DestSizes :
       lastCall' = Transformed("resizeImageData", imageData, dest,
                               resizePixels(imageData, imageData.width, imageData.height,
                                            dest[1], dest[2]),
                               dest[1], dest[2])
  /\ UNCHANGED <<appVars, ioVars, run, png, crcTable, crcCall>>

quantizeColorsCall ==
  /\ lastCall = IdleCall
  /\ \E imageData \in SmallImages, colorCount \in 1..MaxColors :
       lastCall' = Transformed("quantizeColors", imageData, <<colorCount>>,
                               quantizePixels(imageData, colorCount),
                               imageData.width, imageData.height)
  /\ UNCHANGED <<appVars, ioVars, run, png, crcTable, crcCall>>

posterizeColorsCall ==
  /\ lastCall = IdleCall
  /\ \E imageData \in SmallImages \cup {Ramp}, colorCount \in ColorChoices \cup {8, 32, 64, 128} :
       lastCall' = Transformed("posterizeColors", imageData, <<colorCount>>,
                               posterizePixels(imageData, colorCount),
                               imageData.width, imageData.height)
  /\ UNCHANGED <<appVars, ioVars, run, png, crcTable, crcCall>>

applyRGB555Call ==
  /\ lastCall = IdleCall
  /\ \E imageData \in SmallImages \cup {Ramp} :
       lastCall' = Transformed("applyRGB555", imageData, <<>>,
                               applyRGB555Pixels(imageData),
                               imageData.width, imageData.height)
  /\ UNCHANGED <<appVars, ioVars, run, png, crcTable, crcCall>>

snesCropCall ==
  /\ lastCall = IdleCall
  /\ \/ \E imageData \in CropInputs :
          LET cropped == snesCropPixels(imageData, imageData.width, imageData.height)
          IN  lastCall' = Transformed("snesCrop", imageData,
                                      <<imageData.width, imageData.height>>,
                                      cropped.made, cropped.width, cropped.height)
     \/ \E size \in LargeSizes :
          LET imageData == MkImageData(size[1] * size[2] * 4, size[1], size[2], <<"large">>)
              cropped == snesCrop(imageData, size[1], size[2])
          IN  lastCall' = Transformed("snesCrop", imageData, size,
                                      [threw |-> FALSE, image |-> cropped.imageData],
                                      cropped.width, cropped.height)
  /\ UNCHANGED <<appVars, ioVars, run, png, crcTable, crcCall>>

\* medianCut(pixels, colorCount) on a list of [r, g, b]
medianCutCall ==
  /\ lastCall = IdleCall
  /\ \E pixels \in PixelLists, colorCount \in 1..MaxColors :
       lastCall' = CalledWith("medianCut", [pixels |-> pixels, colorCount |-> colorCount],
                              [palette |-> medianCut(pixels, colorCount)], <<>>)
  /\ UNCHANGED <<appVars, ioVars, run, png, crcTable, crcCall>>

MaxString == 3
MaxPalette == 3

\* the parsedParameters fields that prepareTextMetadata writes under a key
\* of their own, with that key
KeyedFields ==
  {<<"positivePrompt", Text.KeyPositivePrompt>>, <<"negativePrompt", Text.KeyNegativePrompt>>,
   <<"steps", Text.KeySteps>>, <<"sampler", Text.KeySampler>>,
   <<"cfgScale", Text.KeyCfgScale>>, <<"seed", Text.KeySeed>>,
   <<"model", Text.KeyModel>>, <<"size", Text.KeySize>>}

\* records with every choice of present fields: with and without a name,
\* without parsedParameters or with any subset of the keyed fields (and, with
\* all of them, the fields that only go into 'parameters'), without EXIF data
\* or with a string, an empty string and a number
PreparedInputs ==
  {[null |-> FALSE, name |-> name, hasParsedParameters |-> has,
    parsedParameters |->
      [k \in DOMAIN NoParsedParameters |->
         IF k \in present \/ (Cardinality(present) = 8 /\ has) THEN <<55>> ELSE <<>>],
    hasExif |-> exif # <<>>, exif |-> exif] :
     name \in {<<>>, <<97, 46, 112, 110, 103>>},
     has \in BOOLEAN,
     present \in SUBSET {kf[1] : kf \in KeyedFields},
     exif \in {<<>>, <<[key |-> <<77, 97, 107, 101>>, value |-> <<88>>, isString |-> TRUE],
                       [key |-> <<73, 83, 79>>, value |-> <<>>, isString |-> TRUE],
                       [key |-> <<70>>, value |-> <<50>>, isString |-> FALSE]>>}}

prepareTextMetadataCall ==
  /\ lastCall = IdleCall
  /\ \E metadata \in PreparedInputs, now \in IsoDates :
       lastCall' = CalledWith("prepareTextMetadata", [metadata |-> metadata, now |-> now],
                              [textData |-> prepareTextMetadata(metadata, now)], <<>>)
  /\ UNCHANGED <<appVars, ioVars, run, png, crcTable, crcCall>>

\* code units: NUL, 'A', U+00FF, U+0100, the euro sign, and the two halves
\* (U+D83D, U+DE00) of a character outside the basic plane
CodeUnits == {0, 65, 255, 256, 8364, 55357, 56832}

stringToLatin1BytesCall ==
  /\ lastCall = IdleCall
  /\ \E str \in SeqsUpTo(CodeUnits, MaxString) :
       lastCall' = CalledWith("stringToLatin1Bytes", [str |-> str],
                              [bytes |-> stringToLatin1Bytes(str)], <<>>)
  /\ UNCHANGED <<appVars, ioVars, run, png, crcTable, crcCall>>

\* a grey pixel with two palette colours at the same distance on either
\* side of it, and a near-black one
NearPixels == {<<128, 128, 128>>, <<0, 0, 1>>}
PaletteColors ==
  {<<118, 128, 128>>, <<138, 128, 128>>, <<128, 128, 128>>, <<0, 0, 0>>, <<255, 0, 0>>}

findNearestColorCall ==
  /\ lastCall = IdleCall
  /\ \E pixel \in NearPixels, palette \in SeqsUpTo(PaletteColors, MaxPalette) \ {<<>>} :
       lastCall' = CalledWith("findNearestColor", [pixel |-> pixel, palette |-> palette],
                              [color |-> findNearestColor(pixel, palette)], <<>>)
  /\ UNCHANGED <<appVars, ioVars, run, png, crcTable, crcCall>>

(***************************************************************************)
(* MetadataHandler.parseStableDiffusionParameters.  A string is the        *)
(* sequence of its code units.  The String methods and regular expressions *)
(* the parser uses, as they act on such sequences.                         *)
(***************************************************************************)
\* the string literals of the parser
Lit ==
  [NegativePrompt |-> <<78, 101, 103, 97, 116, 105, 118, 101, 32, 112, 114, 111, 109, 112, 116, 58>>,    \* "Negative prompt:"
   Steps |-> <<83, 116, 101, 112, 115, 58>>,    \* "Steps:"
   Sampler |-> <<83, 97, 109, 112, 108, 101, 114, 58>>,    \* "Sampler:"
   Colon |-> <<58>>,    \* ":"
   Comma |-> <<44>>,    \* ","
   LoraOpen |-> <<60, 108, 111, 114, 97, 58>>,    \* "<lora:"
   Newline |-> <<10>>,    \* line feed
   Space |-> <<32>>]    \* " "

\* the property names the parser assigns
Field ==
  [loras |-> <<108, 111, 114, 97, 115>>,    \* parsed.loras
   positivePrompt |-> <<112, 111, 115, 105, 116, 105, 118, 101, 80, 114, 111, 109, 112, 116>>,    \* parsed.positivePrompt
   negativePrompt |-> <<110, 101, 103, 97, 116, 105, 118, 101, 80, 114, 111, 109, 112, 116>>,    \* parsed.negativePrompt
   steps |-> <<115, 116, 101, 112, 115>>,    \* parsed.steps
   sampler |-> <<115, 97, 109, 112, 108, 101, 114>>,    \* parsed.sampler
   scheduleType |-> <<115, 99, 104, 101, 100, 117, 108, 101, 84, 121, 112, 101>>,    \* parsed.scheduleType
   cfgScale |-> <<99, 102, 103, 83, 99, 97, 108, 101>>,    \* parsed.cfgScale
   seed |-> <<115, 101, 101, 100>>,    \* parsed.seed
   size |-> <<115, 105, 122, 101>>,    \* parsed.size
   width |-> <<119, 105, 100, 116, 104>>,    \* parsed.width
   height |-> <<104, 101, 105, 103, 104, 116>>,    \* parsed.height
   modelHash |-> <<109, 111, 100, 101, 108, 72, 97, 115, 104>>,    \* parsed.modelHash
   model |-> <<109, 111, 100, 101, 108>>,    \* parsed.model
   vaeHash |-> <<118, 97, 101, 72, 97, 115, 104>>,    \* parsed.vaeHash
   vae |-> <<118, 97, 101>>,    \* parsed.vae
   loraHashes |-> <<108, 111, 114, 97, 72, 97, 115, 104, 101, 115>>,    \* parsed.loraHashes
   version |-> <<118, 101, 114, 115, 105, 111, 110>>]    \* parsed.version

\* the case labels of parseParameterLine, by the property they assign
CaseLabel ==
  [steps |-> <<115, 116, 101, 112, 115>>,    \* case "steps"
   sampler |-> <<115, 97, 109, 112, 108, 101, 114>>,    \* case "sampler"
   scheduleType |-> <<115, 99, 104, 101, 100, 117, 108, 101, 32, 116, 121, 112, 101>>,    \* case "schedule type"
   cfgScale |-> <<99, 102, 103, 32, 115, 99, 97, 108, 101>>,    \* case "cfg scale"
   seed |-> <<115, 101, 101, 100>>,    \* case "seed"
   size |-> <<115, 105, 122, 101>>,    \* case "size"
   modelHash |-> <<109, 111, 100, 101, 108, 32, 104, 97, 115, 104>>,    \* case "model hash"
   model |-> <<109, 111, 100, 101, 108>>,    \* case "model"
   vaeHash |-> <<118, 97, 101, 32, 104, 97, 115, 104>>,    \* case "vae hash"
   vae |-> <<118, 97, 101>>,    \* case "vae"
   loraHashes |-> <<108, 111, 114, 97, 32, 104, 97, 115, 104, 101, 115>>,    \* case "lora hashes"
   version |-> <<118, 101, 114, 115, 105, 111, 110>>]    \* case "version"

\* /\s/ and the characters trim() removes, among the characters modelled
IsSpace(c) == c \in {9, 10, 11, 12, 13, 32}
IsDigit(c) == c \in 48..57
IsUpper(c) == c \in 65..90
\* /\w/
IsWord(c) == IsDigit(c) \/ IsUpper(c) \/ c \in 97..122 \/ c = 95

\* str.trim()
trim(str) ==
  LET kept == {i \in 1..Len(str) : ~IsSpace(str[i])}
  IN  IF kept = {} THEN <<>>
      ELSE SubSeq(str, CHOOSE i \in kept : \A j \in kept : i <= j,
                       CHOOSE i \in kept : \A j \in kept : i >= j)

\* str.indexOf(search) and str.lastIndexOf(search): 0-based, -1 when absent
Occurrences(str, search) ==
  {i \in 0..(Len(str) - Len(search)) : SubSeq(str, i + 1, i + Len(search)) = search}

indexOf(str, search) ==
  LET at == Occurrences(str, search)
  IN  IF at = {} THEN -1 ELSE CHOOSE i \in at : \A j \in at : i <= j

lastIndexOf(str, search) ==
  LET at == Occurrences(str, search)
  IN  IF at = {} THEN -1 ELSE CHOOSE i \in at : \A j \in at : i >= j

includes(str, search) == indexOf(str, search) # -1

startsWith(str, search) ==
  Len(str) >= Len(search) /\ SubSeq(str, 1, Len(search)) = search

\* str.substring(start, end) and str.substring(start), for 0 <= start <= end
substring(str, start, end) == SubSeq(str, start + 1, Min(end, Len(str)))

substringFrom(str, start) == SubSeq(str, start + 1, Len(str))

\* str.split(separator)
RECURSIVE split(_, _)
split(str, separator) ==
  LET i == indexOf(str, separator)
  IN  IF i = -1 THEN <<str>>
      ELSE <<substring(str, 0, i)>> \o split(substringFrom(str, i + Len(separator)), separator)

\* str.replace(search, "") with a string to search: the first occurrence only
replaceFirst(str, search) ==
  LET i == indexOf(str, search)
  IN  IF i = -1 THEN str
      ELSE substring(str, 0, i) \o substringFrom(str, i + Len(search))

\* the characters of str that pass, in order
Kept(str) == SelectSeq(str, LAMBDA c : c # -1)

\* str.replace(/\s+/g, " ")
collapseWhitespace(str) ==
  Kept([i \in 1..Len(str) |->
          IF ~IsSpace(str[i]) THEN str[i]
          ELSE IF i > 1 /\ IsSpace(str[i - 1]) THEN -1 ELSE 32])

\* str.replace(/\s+/g, "")
removeWhitespace(str) == SelectSeq(str, LAMBDA c : ~IsSpace(c))

\* str.toLowerCase() and str.toUpperCase(), on the characters modelled
LowerOf(c) == IF IsUpper(c) THEN c + 32 ELSE c
UpperOf(c) == IF c \in 97..122 THEN c - 32 ELSE c

\* (mutant: the key as it is written)
keyAsWritten(str) == str

toLowerCase(str) == [i \in 1..Len(str) |-> LowerOf(str[i])]

\* parseInt(digits) of a run of decimal digits
RECURSIVE parseInt(_)
parseInt(digits) ==
  IF digits = <<>> THEN 0
  ELSE 10 * parseInt(SubSeq(digits, 1, Len(digits) - 1)) + (digits[Len(digits)] - 48)

\* the 1-based index of the first c at or after from, 0 when there is none
NextIndexOf(str, c, from) ==
  LET at == {i \in from..Len(str) : str[i] = c}
  IN  IF at = {} THEN 0 ELSE CHOOSE i \in at : \A j \in at : i <= j

\* the end of the longest run of characters satisfying Test that starts at from
\* (from - 1 when the character at from does not satisfy it)
RunEnd(str, from, Test(_)) ==
  LET stops == {i \in from..Len(str) : ~Test(str[i])}
  IN  IF stops = {} THEN Len(str)
      ELSE (CHOOSE i \in stops : \A j \in stops : i <= j) - 1

\* the start of the longest run of characters satisfying Test that ends at to
RunStart(str, to, Test(_)) ==
  LET stops == {i \in 1..to : ~Test(str[i])}
  IN  IF stops = {} THEN 1
      ELSE (CHOOSE i \in stops : \A j \in stops : i >= j) + 1

\* the 1-based index of the first occurrence of search at or after from,
\* 0 when there is none
NextOccurrence(str, search, from) ==
  LET at == {i \in Occurrences(str, search) : i + 1 >= from}
  IN  IF at = {} THEN 0 ELSE (CHOOSE i \in at : \A j \in at : i <= j) + 1

NotColonOrClose(c) == c # 58 /\ c # 62

\* /<lora:([^:>]+):([^>]*)>/ tried at the "<lora:" that starts at index at:
\* the name runs to the first ":" or ">", which has to be a ":", and the
\* weight to the first ">" after it
LoraMatchAt(str, at) ==
  LET nameEnd == RunEnd(str, at + 6, NotColonOrClose)
      close   == NextIndexOf(str, 62, nameEnd + 2)
  IN  IF nameEnd >= at + 6 /\ nameEnd < Len(str) /\ str[nameEnd + 1] = 58 /\ close # 0
      THEN [found |-> TRUE, close |-> close,
            lora |-> [name |-> SubSeq(str, at + 6, nameEnd),
                      weight |-> SubSeq(str, nameEnd + 2, close - 1)]]
      ELSE [found |-> FALSE]

\* str.match(/<lora:([^:>]+):[^>]*>/g) mapped to {name, weight}: the matches
\* from left to right, each search resuming after the previous match
RECURSIVE LoraMatches(_, _)
LoraMatches(str, from) ==
  LET at == NextOccurrence(str, Lit.LoraOpen, from)
  IN  IF at = 0 THEN <<>>
      ELSE LET m == LoraMatchAt(str, at)
           IN  IF m.found THEN <<m.lora>> \o LoraMatches(str, m.close + 1)
               ELSE LoraMatches(str, at + 1)

\* str.replace(/<lora:[^>]+>/g, ""): a tag needs a character before its ">"
RECURSIVE removeLoraTags(_, _)
removeLoraTags(str, from) ==
  LET at == NextOccurrence(str, Lit.LoraOpen, from)
  IN  IF at = 0 THEN SubSeq(str, from, Len(str))
      ELSE LET close == NextIndexOf(str, 62, at + 6)
           IN  IF close > at + 6
               THEN SubSeq(str, from, at - 1) \o removeLoraTags(str, close + 1)
               ELSE SubSeq(str, from, at) \o removeLoraTags(str, at + 1)

\* value.match(/(\d+)x(\d+)/): the leftmost "x" between two digits, with
\* the whole run of digits on either side
SizeMatch(value) ==
  LET at == {p \in 2..(Len(value) - 1) :
               value[p] = 120 /\ IsDigit(value[p - 1]) /\ IsDigit(value[p + 1])}
  IN  IF at = {} THEN [found |-> FALSE]
      ELSE LET p == CHOOSE i \in at : \A j \in at : i <= j
           IN  [found |-> TRUE,
                width  |-> SubSeq(value, RunStart(value, p - 1, IsDigit), p - 1),
                height |-> SubSeq(value, p + 1, RunEnd(value, p + 1, IsDigit))]

\* hashStr.replace(/^["']|["']$/g, "")
IsQuote(c) == c = 34 \/ c = 39

stripQuotes(hashStr) ==
  LET open == IF hashStr # <<>> /\ IsQuote(hashStr[1]) THEN Tail(hashStr) ELSE hashStr
  IN  IF open # <<>> /\ IsQuote(open[Len(open)]) THEN SubSeq(open, 1, Len(open) - 1)
      ELSE open

\* camelCase(str): /(?:^\w|[A-Z]|\b\w)/g matches one character at a time, the
\* one at index 0 is lower-cased and the others upper-cased; then the white
\* space goes
camelCase(str) ==
  removeWhitespace(
    [i \in 1..Len(str) |->
       IF i = 1 /\ IsWord(str[i]) THEN LowerOf(str[i])
       ELSE IF IsUpper(str[i]) \/ (IsWord(str[i]) /\ ~IsWord(str[i - 1]))
            THEN UpperOf(str[i])
            ELSE str[i]])

\* the values of the properties of parsed: strings, numbers, arrays, objects
String(str) == [string |-> str]
Number(n) == [number |-> n]
Array(items) == [array |-> items]
Object(entries) == [object |-> entries]

IsString(value) == DOMAIN value = {"string"}

\* parsed[name] = value, and parsed[name] where it is assigned
SetProperty(parsed, name, value) == Put(parsed, name, value)

HasProperty(parsed, name) == KeyIndex(parsed, name, 1) # 0

GetProperty(parsed, name) == parsed[KeyIndex(parsed, name, 1)].text

\* if (parsed[name]): an absent property and the empty string are falsy
TruthyProperty(parsed, name) ==
  HasProperty(parsed, name) /\ GetProperty(parsed, name) # String(<<>>)

\* smartSplit(str, delimiter): the state of the loop
SplitStart == [parts |-> <<>>, current |-> <<>>, inQuotes |-> FALSE, quoteChar |-> 0, depth |-> 0]

SplitStep(st, char, delimiter) ==
  LET tracked ==
        IF IsQuote(char) /\ ~st.inQuotes
        THEN [st EXCEPT !.inQuotes = TRUE, !.quoteChar = char]
        ELSE IF char = st.quoteChar /\ st.inQuotes
        THEN [st EXCEPT !.inQuotes = FALSE, !.quoteChar = 0]
        ELSE IF char = 123 \/ char = 91 THEN [st EXCEPT !.depth = @ + 1]
        ELSE IF char = 125 \/ char = 93 THEN [st EXCEPT !.depth = @ - 1]
        ELSE st
  IN  IF <<char>> = delimiter /\ ~tracked.inQuotes /\ tracked.depth = 0
      THEN [tracked EXCEPT !.parts = Append(@, trim(tracked.current)), !.current = <<>>]
      ELSE [tracked EXCEPT !.current = Append(@, char)]

\* the characters str[i..] in order: the first half of them, then the rest
\* from the state the first half left (bound as an element of a set, which
\* makes TLC compute that state once)
RECURSIVE SplitLoop(_, _, _, _)
SplitLoop(str, delimiter, i, st) ==
  IF i > Len(str) THEN st
  ELSE IF i = Len(str) THEN SplitStep(st, str[i], delimiter)
  ELSE LET mid == (i + Len(str)) \div 2
       IN  CHOOSE after \in {SplitLoop(str, delimiter, mid + 1, half) :
                               half \in {SplitLoop(SubSeq(str, 1, mid), delimiter, i, st)}} :
             TRUE

\* if (current.trim()) parts.push(current.trim()); return parts
SplitEnd(st) == PushIf(st.parts, trim(st.current) # <<>>, trim(st.current))

smartSplit(str, delimiter) == SplitEnd(SplitLoop(str, delimiter, 1, SplitStart))

\* parseLoraHashes(hashStr): name and hash around the last colon of each part
RECURSIVE HashParts(_, _, _)
HashParts(parts, i, hashes) ==
  IF i > Len(parts) THEN hashes
  ELSE LET colonIndex == lastIndexOf(parts[i], Lit.Colon)
       IN  HashParts(parts, i + 1,
             IF colonIndex = -1 THEN hashes
             ELSE SetProperty(hashes, trim(substring(parts[i], 0, colonIndex)),
                              String(trim(substringFrom(parts[i], colonIndex + 1)))))

parseLoraHashes(hashStr) == HashParts(smartSplit(stripQuotes(hashStr), Lit.Comma), 1, <<>>)

\* the switch of parseParameterLine on key.toLowerCase()
AssignParameter(parsed, key, value) ==
  LET label == toLowerCase(key)
      named == {f \in DOMAIN CaseLabel : CaseLabel[f] = label}
  IN  IF label = CaseLabel.size
      THEN LET sized     == SetProperty(parsed, Field.size, String(value))
               sizeMatch == SizeMatch(value)
           IN  IF sizeMatch.found
               THEN SetProperty(SetProperty(sized, Field.width, Number(parseInt(sizeMatch.width))),
                                Field.height, Number(parseInt(sizeMatch.height)))
               ELSE sized
      ELSE IF label = CaseLabel.loraHashes
      THEN SetProperty(parsed, Field.loraHashes, Object(parseLoraHashes(value)))
      ELSE IF named # {}
      THEN SetProperty(parsed, Field[CHOOSE f \in named : TRUE], String(value))
      ELSE SetProperty(parsed, camelCase(key), String(value))

\* the callback of parts.forEach in parseParameterLine
ParameterPart(parsed, part, colonIndex) ==
  IF colonIndex = -1 THEN parsed
  ELSE AssignParameter(parsed, trim(substring(part, 0, colonIndex)),
                       trim(substringFrom(part, colonIndex + 1)))

RECURSIVE ParameterParts(_, _, _)
ParameterParts(parts, i, parsed) ==
  IF i > Len(parts) THEN parsed
  ELSE ParameterParts(parts, i + 1,
                      ParameterPart(parsed, parts[i], indexOf(parts[i], Lit.Colon)))

parseParameterLine(line, parsed) == ParameterParts(smartSplit(line, Lit.Comma), 1, parsed)

\* matchLoraHashes(parsed): forEach is a method of arrays only.  A hash is
\* looked up in an object; no lora name modelled is a property of a string.
MatchedLora(lora, loraHashes) ==
  IF "object" \in DOMAIN loraHashes /\ TruthyProperty(loraHashes.object, lora.name)
  THEN [name |-> lora.name, weight |-> lora.weight,
        hash |-> GetProperty(loraHashes.object, lora.name).string]
  ELSE lora

matchLoraHashes(parsed) ==
  LET loras      == GetProperty(parsed, Field.loras)
      loraHashes == GetProperty(parsed, Field.loraHashes)
  IN  IF ~TruthyProperty(parsed, Field.loras) \/ ~TruthyProperty(parsed, Field.loraHashes)
      THEN [threw |-> FALSE, parsed |-> parsed]
      ELSE IF "array" \notin DOMAIN loras THEN [threw |-> TRUE, parsed |-> parsed]
      ELSE [threw |-> FALSE,
            parsed |-> SetProperty(parsed, Field.loras,
                         Array([k \in 1..Len(loras.array) |->
                                  MatchedLora(loras.array[k], loraHashes)]))]

\* the line that opens the parameters section
IsParameterLine(line) ==
  \/ includes(line, Lit.Steps)
  \/ includes(line, Lit.Sampler)
  \/ (includes(line, Lit.Colon) /\ includes(line, Lit.Comma))

\* lines.findIndex(...): 0-based, -1 when no line opens the parameters
parameterLineIndex(lines) ==
  LET at == {i \in 1..Len(lines) : IsParameterLine(lines[i])}
  IN  IF at = {} THEN -1 ELSE (CHOOSE i \in at : \A j \in at : i <= j) - 1

\* the positive prompt text and the remaining text, without a "Negative
\* prompt:" and with one
SplitAtParameters(paramText, lines, index) ==
  IF index # -1
  THEN [positivePromptText |-> trim(join(SubSeq(lines, 1, index), Lit.Newline, 1)),
        remainingText |-> join(SubSeq(lines, index + 1, Len(lines)), Lit.Newline, 1)]
  ELSE [positivePromptText |-> trim(paramText), remainingText |-> <<>>]

SplitAt(paramText, negativePromptIndex) ==
  IF negativePromptIndex # -1
  THEN [positivePromptText |-> trim(substring(paramText, 0, negativePromptIndex)),
        remainingText |-> substringFrom(paramText, negativePromptIndex)]
  ELSE SplitAtParameters(paramText, split(paramText, Lit.Newline),
                         parameterLineIndex(split(paramText, Lit.Newline)))

SplitPrompt(paramText) == SplitAt(paramText, indexOf(paramText, Lit.NegativePrompt))

\* "Process positive prompt"
SetIf(parsed, cond, name, value) == IF cond THEN SetProperty(parsed, name, value) ELSE parsed

Loras(parsed, loraMatches) ==
  SetIf(parsed, loraMatches # <<>>, Field.loras, Array(loraMatches))

CleanPrompt(parsed, cleanPositivePrompt) ==
  SetIf(parsed, cleanPositivePrompt # <<>>, Field.positivePrompt, String(cleanPositivePrompt))

PositivePrompt(parsed, positivePromptText) ==
  IF positivePromptText = <<>> THEN parsed
  ELSE CleanPrompt(Loras(parsed, LoraMatches(positivePromptText, 1)),
                   trim(collapseWhitespace(removeLoraTags(positivePromptText, 1))))

\* "Process remaining text": the body of the loop for the trimmed line
RemainingLine(st, line) ==
  IF line = <<>> THEN st
  ELSE IF startsWith(line, Lit.NegativePrompt)
  THEN [st EXCEPT !.inNegativePrompt = TRUE,
                  !.negativePromptLines =
                     PushIf(@, trim(replaceFirst(line, Lit.NegativePrompt)) # <<>>,
                            trim(replaceFirst(line, Lit.NegativePrompt)))]
  ELSE IF IsParameterLine(line)
  THEN [st EXCEPT !.inNegativePrompt = FALSE, !.parsed = parseParameterLine(line, @)]
  ELSE [st EXCEPT !.negativePromptLines = PushIf(@, st.inNegativePrompt, line)]

RECURSIVE RemainingLines(_, _, _)
RemainingLines(lines, i, st) ==
  IF i > Len(lines) THEN st
  ELSE RemainingLines(lines, i + 1, RemainingLine(st, trim(lines[i])))

\* "Set negative prompt if we found any"
NegativePrompt(st) ==
  IF Len(st.negativePromptLines) > 0
  THEN SetProperty(st.parsed, Field.negativePrompt,
         String(trim(collapseWhitespace(join(st.negativePromptLines, Lit.Space, 1)))))
  ELSE st.parsed

RemainingText(parsed, remainingText) ==
  IF remainingText = <<>> THEN parsed
  ELSE NegativePrompt(
         RemainingLines(split(remainingText, Lit.Newline), 1,
           [parsed |-> parsed, negativePromptLines |-> <<>>, inNegativePrompt |-> FALSE]))

\* (mutant: a catch that raises again)
ParseCatchRethrow(parsed) == [value |-> <<>>, threw |-> TRUE, caught |-> TRUE]

\* catch (error) { console.warn(...) } and the return that follows it
ParseCatch(parsed) == [value |-> parsed, threw |-> FALSE, caught |-> TRUE]

\* what parsed holds when the post-processing of the LoRA hashes is reached
ParsedPrompt(prompt) ==
  RemainingText(PositivePrompt(<<>>, prompt.positivePromptText), prompt.remainingText)

ParsedLines(paramText) == ParsedPrompt(SplitPrompt(paramText))

\* return parsed, with no exception on the way
ParseReturn(parsed) == [value |-> parsed, threw |-> FALSE, caught |-> FALSE]

\* "Post-process LoRA hashes if available": an exception of matchLoraHashes
\* is caught
Matched(matched) ==
  IF matched.threw THEN ParseCatch(matched.parsed) ELSE ParseReturn(matched.parsed)

PostProcess(parsed) ==
  IF TruthyProperty(parsed, Field.loraHashes) /\ TruthyProperty(parsed, Field.loras)
  THEN Matched(matchLoraHashes(parsed))
  ELSE ParseReturn(parsed)

\* parseStableDiffusionParameters(paramText).  An argument that is no string
\* has no indexOf or no split: the first statements raise with parsed empty.
parseStableDiffusionParameters(paramText) ==
  IF ~IsString(paramText) THEN ParseCatch(<<>>)
  ELSE PostProcess(ParsedLines(paramText.string))

\* the texts the calls of parseStableDiffusionParameters are made of
Sample ==
  [negativeLine |-> <<78, 101, 103, 97, 116, 105, 118, 101, 32, 112, 114, 111, 109, 112, 116, 58, 32>>,    \* "Negative prompt: "
   steps |-> <<83, 116, 101, 112, 115, 58, 32>>,    \* "Steps: "
   sampler |-> <<44, 32, 83, 97, 109, 112, 108, 101, 114, 58, 32>>,    \* ", Sampler: "
   cfgScale |-> <<44, 32, 67, 70, 71, 32, 115, 99, 97, 108, 101, 58, 32>>,    \* ", CFG scale: "
   seed |-> <<44, 32, 83, 101, 101, 100, 58, 32>>,    \* ", Seed: "
   size |-> <<44, 32, 83, 105, 122, 101, 58, 32>>,    \* ", Size: "
   by |-> <<120>>,    \* "x"
   tagged |-> <<99, 97, 116, 32, 32, 60, 108, 111, 114, 97, 58, 118, 58, 49, 62>>,    \* "cat  <lora:v:1>"
   listed |-> <<97, 44, 32, 98, 58, 32, 99>>,    \* "a, b: c"
   ugly |-> <<120, 44, 32, 121, 58, 32, 122>>,    \* "x, y: z"
   thirty |-> <<51, 48>>,    \* "30"
   padded |-> <<32, 51, 32>>,    \* " 3 "
   decimal |-> <<49, 44, 53>>,    \* "1,5"
   euler |-> <<69, 117, 108, 101, 114, 32, 97>>,    \* "Euler a"
   apostrophe |-> <<75, 39, 115>>,    \* "K's"
   bracket |-> <<91, 107>>,    \* "[k"
   scale |-> <<54, 46, 53>>,    \* "6.5"
   fortyTwo |-> <<52, 50>>,    \* "42"
   eight |-> <<56>>,    \* "8"
   seven |-> <<48, 48, 55>>,    \* "007"
   sixteen |-> <<49, 54>>,    \* "16"
   three |-> <<51>>,    \* "3"
   myKey |-> <<109, 121, 75, 101, 121>>,    \* "myKey"
   v |-> <<118>>,    \* "v"
   ab |-> <<97, 98>>,    \* "ab"
   one |-> <<49>>,    \* "1"
   two |-> <<50>>,    \* "2"
   xStr |-> <<120>>,    \* "x"
   cat |-> <<99, 97, 116>>,    \* "cat"
   invalid |-> <<105, 110, 118, 97, 108, 105, 100, 32, 102, 111, 114, 109, 97, 116>>,    \* "invalid format"
   lorasKey |-> <<83, 116, 101, 112, 115, 58, 32, 50, 44, 32, 108, 111, 114, 97, 115, 58, 32, 120, 44, 32, 76, 111, 114, 97, 32, 104, 97, 115, 104, 101, 115, 58, 32, 34, 120, 58, 32, 49, 34>>,    \* "Steps: 2, loras: x, Lora hashes: "x: 1""
   hashed |-> <<99, 97, 116, 32, 32, 60, 108, 111, 114, 97, 58, 118, 58, 49, 62, 10, 83, 116, 101, 112, 115, 58, 32, 50, 44, 32, 77, 121, 32, 107, 101, 121, 58, 32, 118, 44, 32, 76, 111, 114, 97, 32, 104, 97, 115, 104, 101, 115, 58, 32, 34, 118, 58, 32, 97, 98, 34>>]    \* "cat  <lora:v:1>\nSteps: 2, My key: v, Lora hashes: "v: ab""

\* positive prompt, "Negative prompt:" line and settings line
\* "Steps: a, Sampler: b, CFG scale: c, Seed: d, Size: WxH"
SettingsLine(a, b, c, d, w, h) ==
  Sample.steps \o a \o Sample.sampler \o b \o Sample.cfgScale \o c
    \o Sample.seed \o d \o Sample.size \o w \o Sample.by \o h

PromptText(t) ==
  t.positive \o Lit.Newline \o Sample.negativeLine \o t.negative \o Lit.Newline
    \o SettingsLine(t.a, t.b, t.c, t.d, t.w.digits, t.h.digits)

\* W and H are runs of digits, kept with the integers they denote
\* a prompt with a LoRA tag over a negative prompt with commas and a colon,
\* and a prompt with commas and a colon over an empty negative prompt
PromptTexts ==
  [positive : {Sample.tagged}, negative : {Sample.ugly},
   a : {Sample.thirty, Sample.padded, Sample.decimal},
   b : {Sample.euler, Sample.apostrophe, Sample.bracket},
   c : {Sample.scale}, d : {Sample.fortyTwo},
   w : {[digits |-> Sample.seven, value |-> 7]},
   h : {[digits |-> Sample.sixteen, value |-> 16]}]
    \cup
  [positive : {Sample.listed}, negative : {<<>>},
   a : {Sample.thirty, Sample.decimal},
   b : {Sample.euler, Sample.apostrophe},
   c : {Sample.scale}, d : {Sample.fortyTwo},
   w : {[digits |-> Sample.eight, value |-> 8]},
   h : {[digits |-> Sample.sixteen, value |-> 16]}]

\* the text of the test suite's malformed parameters, a settings line with a
\* key "loras", a prompt whose LoRA has a hash, and a number
OtherParameters ==
  {String(Sample.invalid), String(Sample.lorasKey), String(Sample.hashed), Number(5)}

\* the arguments of the calls, with the parts a prompt text is made of
ParameterInputs ==
  {[paramText |-> String(PromptText(t)), made |-> <<t>>] : t \in PromptTexts}
    \cup {[paramText |-> paramText, made |-> <<>>] : paramText \in OtherParameters}

\* parseStableDiffusionParameters(paramText), as extractAIGenerationData calls it
parseStableDiffusionParametersCall ==
  /\ lastCall = IdleCall
  /\ \E in \in ParameterInputs :
       lastCall' = CalledWith("parseStableDiffusionParameters", in,
                              parseStableDiffusionParameters(in.paramText), <<>>)
  /\ UNCHANGED <<appVars, ioVars, run, png, crcTable, crcCall>>

NextCalls ==
  \/ createTextChunkCall
  \/ stringToLatin1BytesCall
  \/ prepareTextMetadataCall
  \/ findNearestColorCall
  \/ createMetadataChunksCall
  \/ resizeImageDataCall
  \/ quantizeColorsCall
  \/ posterizeColorsCall
  \/ applyRGB555Call
  \/ snesCropCall
  \/ medianCutCall
  \/ parseStableDiffusionParametersCall

SpecCalls == InitCodec /\ [][NextCalls]_vars

(***************************************************************************)
(* Properties of the chunk builders                                        *)
(***************************************************************************)
\* the keyword of a tEXt chunk: the bytes before the first zero byte
KeywordLength(data) ==
  (CHOOSE i \in 1..Len(data) : data[i] = 0 /\ \A j \in 1..(i - 1) : data[j] # 0) - 1

\* C11: createTextChunk returns null exactly when the keyword has 0 or more
\* than 79 characters and a tEXt chunk for 1..79 characters;
\* createMetadataChunks leaves out every null result, so each chunk it
\* returns is a tEXt chunk with a keyword of 1..79 characters, one for every
\* entry with text and such a keyword.
C11_NullOnlyForBadKeyword ==
  /\ lastCall.op = "createTextChunk" =>
       LET n == Len(lastCall.in.keyword)
           chunk == lastCall.out.chunk
       IN  /\ (chunk = NullChunk) <=> (n = 0 \/ n > 79)
           /\ n \in 1..79 => chunk.type = ChunkType.tEXt
  /\ lastCall.op = "createMetadataChunks" =>
       LET chunks == lastCall.out.chunks
           textData == lastCall.in.textData
       IN  /\ \A i \in 1..Len(chunks) :
                /\ chunks[i] # NullChunk
                /\ chunks[i].type = ChunkType.tEXt
                /\ KeywordLength(chunks[i].data) \in 1..79
           /\ Len(chunks) =
                Cardinality({i \in 1..Len(textData) :
                               /\ Truthy(textData[i].text)
                               /\ Len(textData[i].keyword) \in 1..79})

\* createMetadataChunks met a keyword of 80 characters and left it out
C11_Witness ==
  /\ lastCall.op = "createMetadataChunks"
  /\ \E i \in 1..Len(lastCall.in.textData) :
       /\ Len(lastCall.in.textData[i].keyword) = 80
       /\ Truthy(lastCall.in.textData[i].text)
  /\ Len(lastCall.out.chunks) = Len(lastCall.in.textData) - 1

(***************************************************************************)
(* Properties of the pixel transforms                                      *)
(***************************************************************************)
TransformNames ==
  {"resizeImageData", "quantizeColors", "posterizeColors", "applyRGB555", "snesCrop"}

\* the last call was transform op and it returned an ImageData
Returned(op) == lastCall.op = op /\ ~lastCall.out.threw

\* the ImageData the last call returned
Result == lastCall.heap[lastCall.out.ref]

\* the four channels of pixel (x, y)
PixelAt(imageData, x, y) ==
  SubSeq(imageData.data, (((y * imageData.width) + x) * 4) + 1,
         (((y * imageData.width) + x) * 4) + 4)

SameSize(a, b) == a.width = b.width /\ a.height = b.height

C14_NearestNeighbour ==
  lastCall.op = "resizeImageData" =>
    LET src == lastCall.in.image
        destWidth == lastCall.in.args[1]
        destHeight == lastCall.in.args[2]
    IN  /\ ~lastCall.out.threw
        /\ Len(Result.data) = destWidth * destHeight * 4
        /\ \A x \in 0..(destWidth - 1), y \in 0..(destHeight - 1) :
             /\ (x * src.width) \div destWidth \in 0..(src.width - 1)
             /\ (y * src.height) \div destHeight \in 0..(src.height - 1)
             /\ PixelAt(Result, x, y)
                  = PixelAt(src, (x * src.width) \div destWidth,
                            (y * src.height) \div destHeight)

C16_CentreCrop ==
  lastCall.op = "snesCrop" =>
    LET src == lastCall.in.image
        left == Max(0, (src.width - 256) \div 2)
        top == Max(0, (src.height - 224) \div 2)
    IN  /\ ~lastCall.out.threw
        /\ lastCall.out.width = Min(256, src.width)
        /\ lastCall.out.height = Min(224, src.height)
        /\ Result.width = lastCall.out.width /\ Result.height = lastCall.out.height
        /\ Result.width <= src.width /\ Result.height <= src.height
        /\ IF "data" \in DOMAIN src
           THEN /\ Len(Result.data) = Result.width * Result.height * 4
                /\ \A x \in 0..(Result.width - 1), y \in 0..(Result.height - 1) :
                     PixelAt(Result, x, y) = PixelAt(src, left + x, top + y)
           ELSE /\ Result.len = Result.width * Result.height * 4
                /\ Result.px = Append(src.px, <<"crop", left, top, Result.width, Result.height>>)
        /\ (src.width = 400 /\ src.height = 300) =>
             (Result.width = 256 /\ Result.height = 224)

\* the 400 x 300 image was cropped to 256 x 224, and a 258 x 1 image lost one
\* column on each side
C16_Witness ==
  /\ Returned("snesCrop")
  /\ \/ /\ lastCall.in.image.width = 400 /\ lastCall.in.image.height = 300
        /\ Result.width = 256 /\ Result.height = 224
     \/ /\ lastCall.in.image.width = 258
        /\ PixelAt(Result, 0, 0) = PixelAt(lastCall.in.image, 1, 0)

C24_OneBytePerCodeUnit ==
  lastCall.op = "stringToLatin1Bytes" =>
    LET str == lastCall.in.str
        bytes == lastCall.out.bytes
    IN  /\ Len(bytes) = Len(str)
        /\ \A i \in 1..Len(str) :
             /\ bytes[i] \in 0..255
             /\ str[i] <= 255 => bytes[i] = str[i]
             /\ str[i] > 255 => bytes[i] = 63
        /\ str = <<>> => bytes = <<>>
        /\ str = <<55357, 56832>> => bytes = <<63, 63>>

\* 'A' followed by the two code units of U+1F600 became 'A??'
C24_Witness ==
  /\ lastCall.op = "stringToLatin1Bytes"
  /\ lastCall.in.str = <<65, 55357, 56832>>
  /\ lastCall.out.bytes = <<65, 63, 63>>

\* the value of four bytes read most significant first, as a 32-bit word
BigEndianWord(b) == Word((b[1] * 256) + b[2], (b[3] * 256) + b[4])

\* C25: for a keyword of 1..79 characters the chunk createTextChunk returns
\* has data = Latin-1 keyword, one zero byte, Latin-1 text; length = keyword
\* length + 1 + text length = data length; and as crc the four bytes, most
\* significant first, of calculateCRC32 over 'tEXt' followed by the data.
C25_TextChunkLayout ==
  (lastCall.op = "createTextChunk" /\ Len(lastCall.in.keyword) \in 1..79) =>
    LET keyword == lastCall.in.keyword
        text == lastCall.in.text
        chunk == lastCall.out.chunk
    IN  /\ chunk # NullChunk
        /\ chunk.data = stringToLatin1Bytes(keyword) \o <<0>> \o stringToLatin1Bytes(text)
        /\ chunk.length = Len(keyword) + 1 + Len(text)
        /\ chunk.length = Len(chunk.data)
        /\ Len(chunk.crc) = 4
        /\ \A i \in 1..4 : chunk.crc[i] \in 0..255
        /\ BigEndianWord(chunk.crc) = ToUint32(calculateCRC32(<<116, 69, 88, 116>> \o chunk.data))

\* a keyword of 79 characters with a text holding a character above U+00FF
C25_Witness ==
  /\ lastCall.op = "createTextChunk"
  /\ Len(lastCall.in.keyword) = 79
  /\ lastCall.in.text = <<233, 8364>>
  /\ SubSeq(lastCall.out.chunk.data, 80, 82) = <<0, 233, 63>>
  /\ lastCall.out.chunk.length = 82

SquaredDistance(a, b) ==
  ((a[1] - b[1]) * (a[1] - b[1])) + ((a[2] - b[2]) * (a[2] - b[2]))
  + ((a[3] - b[3]) * (a[3] - b[3]))

\* C26: for a non-empty palette findNearestColor returns the entry of the
\* smallest index among those whose squared RGB distance to the pixel is
\* minimal over the palette.
C26_FirstNearest ==
  lastCall.op = "findNearestColor" =>
    LET pixel == lastCall.in.pixel
        palette == lastCall.in.palette
        color == lastCall.out.color
    IN  \E i \in 1..Len(palette) :
          /\ color = palette[i]
          /\ \A j \in 1..Len(palette) :
               SquaredDistance(pixel, palette[i]) <= SquaredDistance(pixel, palette[j])
          /\ \A j \in 1..(i - 1) :
               SquaredDistance(pixel, palette[j]) > SquaredDistance(pixel, palette[i])

\* two different colours at the same smallest distance, the first one returned
\* although it is not the first entry of the palette
C26_Witness ==
  /\ lastCall.op = "findNearestColor"
  /\ lastCall.in.pixel = <<128, 128, 128>>
  /\ lastCall.in.palette = << <<0, 0, 0>>, <<138, 128, 128>>, <<118, 128, 128>> >>
  /\ lastCall.out.color = <<138, 128, 128>>

\* the text stored under keyword, <<>> when there is none
TextAt(textData, keyword) ==
  IF KeyIndex(textData, keyword, 1) = 0 THEN <<>>
  ELSE textData[KeyIndex(textData, keyword, 1)].text

HasKey(textData, keyword) == KeyIndex(textData, keyword, 1) # 0

\* C23: for every metadata record, the empty one included, the map
\* prepareTextMetadata returns holds 'Software' = 'Pixelate Editor v2.0' and
\* a 'Processing Date'; 'Source' only when the record has a name; each of
\* 'Positive Prompt', 'Negative Prompt', 'Steps', 'Sampler', 'CFG Scale',
\* 'Seed', 'Model', 'Size' only when the matching parsedParameters field is
\* present; 'EXIF:<key>' only for EXIF fields whose value is a non-empty string.
C23_PreparedKeys ==
  lastCall.op = "prepareTextMetadata" =>
    LET metadata == lastCall.in.metadata
        textData == lastCall.out.textData
    IN  /\ TextAt(textData, Text.KeySoftware) = Text.SoftwareName
        /\ HasKey(textData, Text.KeyProcessingDate)
        /\ TextAt(textData, Text.KeyProcessingDate) = lastCall.in.now
        /\ \A i, j \in 1..Len(textData) : textData[i].keyword = textData[j].keyword => i = j
        /\ HasKey(textData, Text.KeySource) =>
             Truthy(metadata.name) /\ TextAt(textData, Text.KeySource) = metadata.name
        /\ \A kf \in KeyedFields :
             HasKey(textData, kf[2]) =>
               /\ metadata.hasParsedParameters
               /\ Truthy(metadata.parsedParameters[kf[1]])
               /\ TextAt(textData, kf[2]) = metadata.parsedParameters[kf[1]]
        /\ \A i \in 1..Len(textData) :
             (Len(textData[i].keyword) >= 5 /\ SubSeq(textData[i].keyword, 1, 5) = Text.ExifPrefix) =>
               \E j \in 1..Len(metadata.exif) :
                 /\ metadata.hasExif
                 /\ textData[i].keyword = Text.ExifPrefix \o metadata.exif[j].key
                 /\ metadata.exif[j].isString
                 /\ Truthy(metadata.exif[j].value)
                 /\ textData[i].text = metadata.exif[j].value
        /\ (~Truthy(metadata.name) /\ ~metadata.hasParsedParameters /\ ~metadata.hasExif) =>
             Len(textData) = 2

\* a record with a name, steps but no seed, and EXIF values of which only one
\* is a non-empty string: 'Source', 'Steps' and one 'EXIF:' key, no 'Seed'
C23_Witness ==
  /\ lastCall.op = "prepareTextMetadata"
  /\ Truthy(lastCall.in.metadata.name)
  /\ lastCall.in.metadata.hasParsedParameters
  /\ Truthy(lastCall.in.metadata.parsedParameters.steps)
  /\ ~Truthy(lastCall.in.metadata.parsedParameters.seed)
  /\ Len(lastCall.in.metadata.exif) = 3
  /\ HasKey(lastCall.out.textData, Text.KeySource)
  /\ HasKey(lastCall.out.textData, Text.KeySteps)
  /\ ~HasKey(lastCall.out.textData, Text.KeySeed)
  /\ HasKey(lastCall.out.textData, Text.ExifPrefix \o <<77, 97, 107, 101>>)
  /\ ~HasKey(lastCall.out.textData, Text.ExifPrefix \o <<73, 83, 79>>)
  /\ ~HasKey(lastCall.out.textData, Text.ExifPrefix \o <<70>>)

(***************************************************************************)
(* Termination of parsePNGChunks (SpecPng)                                 *)
(***************************************************************************)
\* the offsets at which the loop of parsePNGChunks reads a chunk header
RECURSIVE VisitedOffsets(_, _, _)
VisitedOffsets(data, offset, seen) ==
  IF ~(offset < Len(data)) \/ offset + 8 > Len(data) \/ offset \in seen THEN seen
  ELSE VisitedOffsets(data, NextOffset(offset, ReadLength(data, offset)),
                      seen \cup {offset})

\* C27: parsePNGChunks terminates on every byte sequence: in each iteration
\* the offset strictly increases, whatever the four length bytes hold (FF FF
\* FF F4 included), so the loop ends after at most (input length) / 12
\* iterations and no call stays without a result.
C27_ParseTerminates ==
  /\ png.pc # "pending"
  /\ (Preserving /\ StartsWithSignature(png.blob.bytes)) =>
       LET data == png.blob.bytes
       IN  /\ ParseRun(data).returns
           /\ \A o \in VisitedOffsets(data, 8, {}) :
                NextOffset(o, ReadLength(data, o)) > o
           /\ Len(ParseRun(data).chunks) <= Len(data) \div 12

(***************************************************************************)
(* File loads that overlap or fail (SpecApp)                               *)
(***************************************************************************)
\* C28: whatever files were selected, also while an earlier load was in
\* flight, and in whatever order extractions and decodes complete: once all
\* loads have settled, currentImage, currentMetadata and originalFileName
\* belong to one file, the last one selected, and the canvas shows it.
C28_SettledLoadsAgree ==
  (LoadsInFlight = 0 /\ currentImage # NoImage) =>
    /\ originalFileName = currentImage
    /\ currentMetadata.name = currentImage
    /\ canvas.px # <<>> /\ canvas.px[1] = currentImage

\* C29: when the decode of a selected file fails, and no other load is in
\* flight, the application is left with an image, metadata and file name
\* of the same file, as before the selection, so that Save pairs the
\* displayed image with its own metadata and name.
C29_FailedLoadRestores ==
  [][\A f \in Files :
       (/\ LoadsInFlight = 1 /\ loads[<<f, "decode">>] = 1
        /\ loads'[<<f, "decode">>] = 0
        /\ currentImage' = currentImage /\ currentImage # NoImage) =>
         /\ originalFileName' = currentImage'
         /\ currentMetadata'.name = currentImage']_vars

(***************************************************************************)
(* Process and Reload on one loaded file (Spec)                            *)
(***************************************************************************)
\* what one Process with parameters p makes of the image of file f when no
\* allocation fails
ProcessedOriginal(f, p) ==
  RunToEnd([IdleRun EXCEPT !.pc = "downscale", !.image = f, !.params = p,
              !.data = MkImageData(FileW(f) * FileH(f) * 4, FileW(f), FileH(f), <<f>>),
              !.w = FileW(f), !.h = FileH(f)],
           "none").data

\* C30: the pipeline always runs on currentImage, never on what the canvas
\* shows: after any Process and Reload actions on a loaded file, a Process
\* with parameters p leaves on the canvas what a single Process with p makes
\* of the original, and Reload shows the original again.
C30_ProcessFromOriginal ==
  /\ [](run.pc # "idle" =>
          /\ run.image = currentImage
          /\ run.data.px # <<>> /\ run.data.px[1] = currentImage)
  /\ [][(run.pc = "returned" /\ run'.pc = "idle") =>
          canvas' = displayImageData(ProcessedOriginal(currentImage, run.params))]_vars
  /\ [][(run.pc = "idle" /\ run'.pc = "idle" /\ canvas' # canvas) =>
          canvas' = displayImage(currentImage)]_vars

\* a Process has returned while the canvas shows the result of an earlier
\* Process with other parameters, itself a transformed image
C30_Witness ==
  /\ run.pc = "returned"
  /\ canvas.kind = "data"
  /\ Len(canvas.px) > 1
  /\ Len(run.ran) >= 1
  /\ canvas.px # run.data.px
  /\ run.data = ProcessedOriginal(currentImage, run.params)

(***************************************************************************)
(* Properties of parseStableDiffusionParameters                            *)
(***************************************************************************)
ParseCalled == lastCall.op = "parseStableDiffusionParameters"

\* the call on a text made of a positive prompt, a "Negative prompt:" line
\* and a settings line, and the parts the text is made of
PromptCalled == ParseCalled /\ lastCall.in.made # <<>>

SettingsFields ==
  {Field.steps, Field.sampler, Field.cfgScale, Field.seed, Field.size,
   Field.width, Field.height}

PromptFields == {Field.loras, Field.positivePrompt, Field.negativePrompt}

Holds(parsed, name, value) ==
  HasProperty(parsed, name) /\ GetProperty(parsed, name) = value

\* the settings as the line gives them, and nothing of the negative prompt
SettingsAsWritten(parsed, t) ==
  /\ Holds(parsed, Field.steps, String(trim(t.a)))
  /\ Holds(parsed, Field.sampler, String(trim(t.b)))
  /\ Holds(parsed, Field.cfgScale, String(trim(t.c)))
  /\ Holds(parsed, Field.seed, String(trim(t.d)))
  /\ Holds(parsed, Field.size, String(t.w.digits \o Sample.by \o t.h.digits))
  /\ Holds(parsed, Field.width, Number(t.w.value))
  /\ Holds(parsed, Field.height, Number(t.h.value))
  /\ \A k \in 1..Len(parsed) :
       /\ parsed[k].keyword \in SettingsFields \cup PromptFields
       /\ (parsed[k].keyword \in SettingsFields /\ IsString(parsed[k].text)
             /\ t.negative # <<>>)
            => ~includes(parsed[k].text.string, t.negative)

\* a value with no comma, quote, bracket or brace
Plain(value) == \A i \in 1..Len(value) : value[i] \notin {44, 34, 39, 91, 93, 123, 125}

PlainSettings(t) == Plain(t.a) /\ Plain(t.b) /\ Plain(t.c) /\ Plain(t.d)

\* C22 as stated: for every text made of a positive prompt, a "Negative
\* prompt:" line and the settings line "Steps: a, Sampler: b, CFG scale: c,
\* Seed: d, Size: WxH", the parse yields steps, sampler, cfgScale, seed and
\* size as the trimmed strings, width and height as the integers W and H,
\* and no settings field holds the negative prompt.
C22_SettingsOfEveryText ==
  PromptCalled => SettingsAsWritten(lastCall.out.value, lastCall.in.made[1])

\* C22: the same, for the texts whose values a, b, c and d hold no comma,
\* no quote, no bracket and no brace.
C22_SettingsOfPlainValues ==
  (PromptCalled /\ PlainSettings(lastCall.in.made[1]))
    => SettingsAsWritten(lastCall.out.value, lastCall.in.made[1])

C22_Witness ==
  /\ PromptCalled
  /\ PlainSettings(lastCall.in.made[1])
  /\ lastCall.in.made[1].a = Sample.padded
  /\ lastCall.in.made[1].negative = Sample.ugly
  /\ lastCall.in.made[1].w.digits = Sample.seven
  /\ Holds(lastCall.out.value, Field.steps, String(Sample.three))
  /\ Holds(lastCall.out.value, Field.width, Number(7))
  /\ Holds(lastCall.out.value, Field.negativePrompt, String(Sample.ugly))

\* C21: parseStableDiffusionParameters never throws: every call returns an
\* object, and when an exception occurred on the way the object holds
\* exactly the properties assigned before it.
C21_ParseNeverThrows ==
  ParseCalled =>
    /\ ~lastCall.out.threw
    /\ lastCall.out.caught =>
         lastCall.out.value = IF IsString(lastCall.in.paramText)
                              THEN ParsedLines(lastCall.in.paramText.string)
                              ELSE <<>>

C21_Witness ==
  /\ ParseCalled
  /\ lastCall.in.paramText = String(Sample.lorasKey)
  /\ lastCall.out.caught
  /\ ~lastCall.out.threw
  /\ Holds(lastCall.out.value, Field.steps, String(Sample.two))
  /\ Holds(lastCall.out.value, Field.loras, String(Sample.xStr))
  /\ HasProperty(lastCall.out.value, Field.loraHashes)

====
